---- MODULE Spec2Model ----
(***************************************************************************)
(* The tool-execution bridge of the Gamma Excel add-in.                    *)
(*                                                                         *)
(*   index.tsx      renders App with isOfficeInitialized = false, then      *)
(*                  again with true from Office.onReady and from the hot    *)
(*                  module replacement callback; React commits each call    *)
(*                  in a later task, and mounts a new App where the         *)
(*                  component is another one or the root is empty.          *)
(*   App            opens one WebSocket per mount, in the effect that runs  *)
(*                  after the commit, routes inbound frames in              *)
(*                  handleServerMessage and answers tool_request frames     *)
(*                  with tool_result frames. An App that the root holds no  *)
(*                  more keeps its socket until its cleanup runs.           *)
(*   ExcelTools     the operations on the workbook; each one runs a batch   *)
(*                  inside Excel.run and commits it with context.sync().    *)
(*                                                                         *)
(* A tool request that reaches the workbook is a task: it is suspended at  *)
(* the call of Excel.run, at context.sync() and at the return to the       *)
(* handler, and tasks interleave freely at these points.                   *)
(***************************************************************************)
EXTENDS Integers, Sequences, FiniteSets, TLC

\* Bounds of the model.
MaxInputs == 2
MaxCalls == 2
MaxFrames == 3

VARIABLES
    isOfficeInitialized,  \* the prop of the latest root.render
    onReady,              \* the callback given to Office.onReady has run
    root,                 \* the React root: the component type of the App it holds
                          \* (type), the one of the latest root.render (element),
                          \* whether React has yet to commit that call (queued), and
                          \* whether passive effects of the last commit have yet to
                          \* run (effects)
    mounts,               \* App instances mounted so far (0: nothing committed yet)
    prior,                \* the App instance that the root held before the current
                          \* one: its number, the readyState of its socket, the flag
                          \* its handleServerMessage sees, and whether its effect
                          \* cleanup has yet to run
    sockets,              \* history: WebSocket objects constructed so far
    handlerReady,         \* isOfficeInitialized as seen by the handleServerMessage
                          \* that socket.onmessage of the current instance calls
    readyState,           \* ws.current.readyState of the current instance
    isConnected,          \* React state of the current instance, with the updates
                          \* that are queued (also loading, prompt, messages)
    drawn,                \* what the last render of the instance showed: the prop
                          \* isOfficeInitialized and the state isConnected
    pendingError,         \* a queued update of messages throws when it is rendered
    loading,
    prompt,
    messages,
    arrivals,             \* history: the frames delivered to socket.onmessage
    sent,                 \* the frames handed to ws.current.send, in order
    tasks,                \* the calls of ExcelTools operations that have not finished
    cells,                \* the workbook: the active sheet's cells in columns A-B, rows 1-2
    charts,               \* the charts on the active sheet (by the call that made them)
    book,                 \* the rest of the workbook: sheets, formats, tables, names,
                          \* protection, selection and the cells outside cells
    hostRuns,             \* history: Excel.run calls so far
    hostSyncs,            \* history: context.sync() calls so far
    lastCommit,           \* history: the call whose batch the host processed last
    returned,             \* history: the last direct call that returned or threw
    inputs                \* external stimuli so far: frames, hot reloads, direct calls

vars == <<isOfficeInitialized, onReady, root, mounts, prior, sockets, handlerReady, readyState, isConnected,
          drawn, pendingError, loading, prompt, messages, arrivals, sent, tasks, cells, charts, book,
          hostRuns, hostSyncs, lastCommit, returned, inputs>>

appVars == <<isOfficeInitialized, onReady, root, mounts, prior, sockets, handlerReady, readyState, isConnected,
             drawn, pendingError, loading, prompt, messages, arrivals, sent>>

hostVars == <<cells, charts, book, hostRuns, hostSyncs, lastCommit>>

-----------------------------------------------------------------------------
(* JavaScript values that travel in frames and live in cells. *)

Str(s) == [type |-> "string", val |-> s]
Num(s) == [type |-> "number", val |-> s]
EmptyCell == Str("")

\* Strings that the host parses as numbers when they are written to a cell.
NumericText == {"5", "7"}

\* range.values = [[value]]: the host stores what it parsed, not what it was given.
\* A text that starts with "=" is stored as a formula.
HostCoerce(v) ==
    IF v.type = "string" /\ v.val \in NumericText THEN Num(v.val)
    ELSE IF v.type = "string" /\ Len(v.val) > 1 /\ SubSeq(v.val, 1, 1) = "="
         THEN [type |-> "formula", val |-> v.val]
         ELSE v

\* range.text[0][0]: the displayed text of the stored value.
HostText(v) == Str(v.val)

\* The sheet: two columns, two rows.
Cols == <<"A", "B">>
Rows == 1 .. 2
Cells == {Cols[c] \o ToString(r) : c \in 1 .. Len(Cols), r \in Rows}

\* sheet.getRange(address): addresses are case-insensitive; "A0" names no cell.
ValidAddress(a) == a \in {"A1", "a1", "B1", "A2", "B2"}
CellOf(a) == IF a = "a1" THEN "A1" ELSE a

InvalidArgument == "The argument is invalid or missing or has an incorrect format."

\* The messages of the other errors that the host reports, by their code.
HostError(code) ==
    CASE code = "InvalidArgument" -> InvalidArgument
      [] code = "ItemNotFound" -> "The requested resource doesn't exist."
      [] code = "ItemAlreadyExists" -> "The resource being created already exists."
      [] code = "AccessDenied" -> "You cannot perform the requested operation."
      [] code = "BadPassword" -> "The password you supplied is incorrect."
      [] code = "InvalidOperation" -> "The operation attempted is invalid on the object."
      [] code = "InvalidReference" -> "This reference is not valid for the current operation."
      [] code = "InsertDeleteConflict" ->
            "The insert or delete operation attempted resulted in a conflict."
      [] code = "ValueNotLoaded" ->
            "The value of the result object has not been loaded yet. Before reading the "
                \o "value property, call \"context.sync()\" on the associated request context."

-----------------------------------------------------------------------------
(* The args of a tool_request, as JSON.parse delivers them. args.cells is  *)
(* an object (address -> value, in key order), an array of addresses, or   *)
(* absent.                                                                 *)

NoCells == [kind |-> "undefined", entries |-> << >>, items |-> << >>]
ObjCells(es) == [kind |-> "object", entries |-> es, items |-> << >>]
ArrCells(is) == [kind |-> "array", entries |-> << >>, items |-> is]

\* A property that is absent is "" (0 for the numbers of a chart's size and
\* of a block's rows); hasHeaders is "true", "false" or absent.
NoArgs ==
    [defined |-> FALSE, cells |-> NoCells, col1 |-> "", col2 |-> "",
     row1 |-> 0, row2 |-> 0, source |-> "", target |-> "", dataRange |-> "",
     chartType |-> "", title |-> "", hasHeaders |-> "", position |-> "",
     width |-> 0, height |-> 0, given |-> {}]
CellsArgs(c) == [NoArgs EXCEPT !.defined = TRUE, !.cells = c]
BlockArgs(c1, c2, r1, r2) ==
    [NoArgs EXCEPT !.defined = TRUE, !.col1 = c1, !.col2 = c2, !.row1 = r1, !.row2 = r2]
FillArgs(s, t) == [NoArgs EXCEPT !.defined = TRUE, !.source = s, !.target = t]
\* given: the properties that the options object of create_chart has.
ChartArgs(r) == [NoArgs EXCEPT !.defined = TRUE, !.dataRange = r, !.given = {"dataRange"}]
\* args: {} : present, with none of the properties an operation reads.
EmptyArgs == [NoArgs EXCEPT !.defined = TRUE]

\* Object.entries(cells): an array's entries are keyed by its indices.
ObjectEntries(c) ==
    IF c.kind = "object" THEN c.entries
    ELSE IF c.kind = "array"
         THEN [i \in 1 .. Len(c.items) |-> <<ToString(i - 1), Str(c.items[i])>>]
         ELSE << >>

SeqRange(s) == {s[i] : i \in 1 .. Len(s)}

-----------------------------------------------------------------------------
(* What an operation hands back: a value (string, object, array, null) or  *)
(* a thrown error. rows holds an array of arrays of cell values.           *)

NoObj == [a \in {} |-> EmptyCell]
NullResult == [kind |-> "null", str |-> "", obj |-> NoObj, arr |-> << >>,
     rows |-> << >>]
StrResult(s) == [kind |-> "string", str |-> s, obj |-> NoObj, arr |-> << >>,
     rows |-> << >>]
ObjResult(f) == [kind |-> "object", str |-> "", obj |-> f, arr |-> << >>,
     rows |-> << >>]
ArrResult(a) == [kind |-> "array", str |-> "", obj |-> NoObj, arr |-> a,
     rows |-> << >>]

Pending == [status |-> "pending", result |-> NullResult, message |-> ""]
Fulfilled(r) == [status |-> "fulfilled", result |-> r, message |-> ""]
Rejected(m) == [status |-> "rejected", result |-> NullResult, message |-> m]

NoCellsMessage == "Error: No cells data provided to write."

\* What a call does before its first await: it returns, throws, or calls Excel.run.
Returns(r) == [kind |-> "return", outcome |-> Fulfilled(r)]
Throws(m) == [kind |-> "throw", outcome |-> Rejected(m)]
RunsBatch == [kind |-> "run", outcome |-> Pending]

-----------------------------------------------------------------------------
(* ExcelTools: the part of each operation that runs before Excel.run. *)

\* Mutant: the check for an empty or missing mapping is left out.
modify_cells_unguarded(a) == RunsBatch

modify_cells(a) ==
    IF a.cells.kind = "undefined" \/ Len(ObjectEntries(a.cells)) = 0
    THEN Returns(StrResult(NoCellsMessage))
    ELSE RunsBatch

\* Mutant: the short-circuit for an empty list is left out.
read_cells_text_unguarded(a) ==
    IF a.cells.kind = "undefined"
    THEN Throws("Cannot read properties of undefined (reading 'length')")
    ELSE RunsBatch

\* addresses.length of an absent list throws; an object has no length.
read_cells_text(a) ==
    IF a.cells.kind = "undefined"
    THEN Throws("Cannot read properties of undefined (reading 'length')")
    ELSE IF a.cells.kind = "array" /\ Len(a.cells.items) = 0
         THEN Returns(ObjResult(NoObj))
         ELSE RunsBatch

\* Mutant: a missing list is treated as an empty one.
read_cells_values_lenient(a) ==
    IF a.cells.kind = "undefined" \/ (a.cells.kind = "array" /\ Len(a.cells.items) = 0)
    THEN Returns(ObjResult(NoObj))
    ELSE RunsBatch

read_cells_values(a) ==
    IF a.cells.kind = "undefined"
    THEN Throws("Cannot read properties of undefined (reading 'length')")
    ELSE IF a.cells.kind = "array" /\ Len(a.cells.items) = 0
         THEN Returns(ObjResult(NoObj))
         ELSE RunsBatch

read_subtable(a) == RunsBatch

extend(a) == RunsBatch

\* const { dataRange, ... } = options throws when options is absent.
create_chart(a) ==
    IF ~a.defined
    THEN Throws("Cannot destructure property 'dataRange' of 'options' as it is undefined.")
    ELSE RunsBatch

delete_all_charts(a) == RunsBatch

\* The operations that start with Excel.run, whatever their arguments are.
BatchOnly ==
    {"read_range", "clear_range", "get_active_sheet", "list_sheets", "create_sheet",
     "activate_sheet", "delete_sheet", "rename_sheet", "format_cells", "add_border",
     "set_number_format", "insert_rows", "delete_rows", "insert_columns", "delete_columns",
     "auto_fit_columns", "auto_fit_rows", "create_table", "list_tables", "delete_table",
     "get_formula", "set_formula", "sort_range", "find_in_range", "replace_in_range",
     "create_named_range", "get_named_range", "list_named_ranges", "protect_sheet",
     "unprotect_sheet", "get_used_range", "get_selection", "calculate"}

\* The operations of the ExcelTools object.
ExcelTools ==
    {"modify_cells", "read_subtable", "read_cells_text", "read_cells_values", "extend",
     "create_chart", "delete_all_charts"} \cup BatchOnly

Invoke(tool, a) ==
    CASE tool = "modify_cells" -> modify_cells(a)
      [] tool = "read_subtable" -> read_subtable(a)
      [] tool = "read_cells_text" -> read_cells_text(a)
      [] tool = "read_cells_values" -> read_cells_values(a)
      [] tool = "extend" -> extend(a)
      [] tool = "create_chart" -> create_chart(a)
      [] tool = "delete_all_charts" -> delete_all_charts(a)
      [] tool \in BatchOnly -> RunsBatch

-----------------------------------------------------------------------------
(* The batch of an operation: what its callback does up to context.sync(), *)
(* and what the host does with the queue when it processes the sync.       *)

\* The errors that the callback of an operation throws before its sync ("": it
\* reaches the sync). for (const addr of addresses) over an object throws, and
\* so does format.backgroundColor of an absent format. The count of
\* range.replaceAll(...) is read before the sync: a library that loads it on the
\* sync throws, one that hands it out at once does not.
BatchErrors(tool, a) ==
    IF tool \in {"read_cells_text", "read_cells_values"} /\ a.cells.kind = "object"
    THEN {"addresses is not iterable"}
    ELSE IF tool = "format_cells" /\ "format" \notin DOMAIN a
    THEN {"Cannot read properties of undefined (reading 'backgroundColor')"}
    ELSE IF tool = "replace_in_range"
    THEN {HostError("ValueNotLoaded"), ""}
    ELSE {""}

ColIndex(c) == CHOOSE i \in 1 .. Len(Cols) : Cols[i] = c
ValidBlock(a) ==
    /\ a.col1 \in SeqRange(Cols) /\ a.col2 \in SeqRange(Cols)
    /\ a.row1 \in Rows /\ a.row2 \in Rows

Min(x, y) == IF x <= y THEN x ELSE y
Max(x, y) == IF x >= y THEN x ELSE y

\* sheet.getRange(address) for addresses of the forms "B1" and "A1:B2" (columns
\* of one letter, in either case; rows up to 99): the box of cells that the host
\* resolves, its columns and rows counted from 1. Other texts name no range.
Box(address) ==
    LET \* The column and row that the text s names as a cell, or zeros.
        Cell(s) ==
            [c |-> IF /\ Len(s) >= 2
                      /\ \E i \in 1 .. 26 :
                            SubSeq(s, 1, 1) \in {SubSeq("ABCDEFGHIJKLMNOPQRSTUVWXYZ", i, i),
                                                 SubSeq("abcdefghijklmnopqrstuvwxyz", i, i)}
                   THEN CHOOSE i \in 1 .. 26 :
                            SubSeq(s, 1, 1) \in {SubSeq("ABCDEFGHIJKLMNOPQRSTUVWXYZ", i, i),
                                                 SubSeq("abcdefghijklmnopqrstuvwxyz", i, i)}
                   ELSE 0,
             r |-> IF \E n \in 1 .. 99 : ToString(n) = SubSeq(s, 2, Len(s))
                   THEN CHOOSE n \in 1 .. 99 : ToString(n) = SubSeq(s, 2, Len(s))
                   ELSE 0]
        Span(p, q) ==
            IF p.c > 0 /\ p.r > 0 /\ q.c > 0 /\ q.r > 0
            THEN [ok |-> TRUE, c1 |-> Min(p.c, q.c), r1 |-> Min(p.r, q.r),
                  c2 |-> Max(p.c, q.c), r2 |-> Max(p.r, q.r)]
            ELSE [ok |-> FALSE, c1 |-> 0, r1 |-> 0, c2 |-> 0, r2 |-> 0]
        colon ==
            IF \E i \in 1 .. Len(address) : SubSeq(address, i, i) = ":"
            THEN CHOOSE i \in 1 .. Len(address) : SubSeq(address, i, i) = ":"
            ELSE 0
    IN IF colon = 0 THEN Span(Cell(address), Cell(address))
       ELSE Span(Cell(SubSeq(address, 1, colon - 1)),
                 Cell(SubSeq(address, colon + 1, Len(address))))

\* The address of the cell in column c, row r.
CellName(c, r) == SubSeq("ABCDEFGHIJKLMNOPQRSTUVWXYZ", c, c) \o ToString(r)

\* autoFill and the moves of a sort: a formula copied dc columns and dr rows
\* away names the cell as far away from the one it named.
Relative(v, dc, dr) ==
    LET ref == Box(SubSeq(v.val, 2, Len(v.val)))
    IN IF v.type # "formula" THEN v
       ELSE IF ~ref.ok THEN v
       ELSE IF ref.c1 + dc >= 1 /\ ref.r1 + dr >= 1
            THEN [type |-> "formula", val |-> "=" \o CellName(ref.c1 + dc, ref.r1 + dr)]
            ELSE [type |-> "formula", val |-> "=#REF!"]

RECURSIVE JoinCellsTight(_, _, _, _)
\* Mutant: row.join("") in place of row.join(" ").
JoinCellsTight(doc, r, from, to) ==
    IF from > to THEN ""
    ELSE HostText(doc[Cols[from] \o ToString(r)]).val \o JoinCellsTight(doc, r, from + 1, to)

RECURSIVE JoinCells(_, _, _, _)
\* row.join(" ") over the texts of columns from..to of row r.
JoinCells(doc, r, from, to) ==
    IF from > to THEN ""
    ELSE IF from = to THEN HostText(doc[Cols[from] \o ToString(r)]).val
    ELSE HostText(doc[Cols[from] \o ToString(r)]).val \o " " \o JoinCells(doc, r, from + 1, to)

\* range.text.map(row => row.join(" ")) of the range col1 row1 : col2 row2.
SubtableRows(doc, a) ==
    LET c1 == Min(ColIndex(a.col1), ColIndex(a.col2))
        c2 == Max(ColIndex(a.col1), ColIndex(a.col2))
        r1 == Min(a.row1, a.row2)
        r2 == Max(a.row1, a.row2)
    IN [i \in 1 .. (r2 - r1 + 1) |-> JoinCells(doc, r1 + i - 1, c1, c2)]

CellCol(c) == CHOOSE i \in 1 .. Len(Cols) : \E r \in Rows : c = Cols[i] \o ToString(r)
CellRow(c) == CHOOSE r \in Rows : \E i \in 1 .. Len(Cols) : c = Cols[i] \o ToString(r)

\* The cells of the range source:target.
FillRange(s, t) ==
    {c \in Cells :
        /\ CellCol(c) >= Min(CellCol(s), CellCol(t)) /\ CellCol(c) <= Max(CellCol(s), CellCol(t))
        /\ CellRow(c) >= Min(CellRow(s), CellRow(t)) /\ CellRow(c) <= Max(CellRow(s), CellRow(t))}

RECURSIVE ApplyWritesSwapped(_, _)
\* Mutant: the address is written in place of the value.
ApplyWritesSwapped(doc, es) ==
    IF es = << >> THEN doc
    ELSE ApplyWritesSwapped([doc EXCEPT ![CellOf(Head(es)[1])] = Str(Head(es)[1])], Tail(es))

RECURSIVE ApplyWrites(_, _)
\* range.values = [[value]] for each entry, in key order: a later entry wins.
ApplyWrites(doc, es) ==
    IF es = << >> THEN doc
    ELSE ApplyWrites([doc EXCEPT ![CellOf(Head(es)[1])] = HostCoerce(Head(es)[2])], Tail(es))

\* The first queued write whose address names no cell (0: none).
FirstBadEntry(es) ==
    IF \A i \in 1 .. Len(es) : ValidAddress(es[i][1]) THEN 0
    ELSE CHOOSE i \in 1 .. Len(es) :
            /\ ~ValidAddress(es[i][1])
            /\ \A j \in 1 .. (i - 1) : ValidAddress(es[j][1])

\* Mutant: the values are read from range.text.
ReadValuesAsText(doc, items) == [x \in SeqRange(items) |-> HostText(doc[CellOf(x)])]

\* result[item.addr] = item.range.values[0][0], one key per address given.
ReadValues(doc, items) == [x \in SeqRange(items) |-> doc[CellOf(x)]]
ReadText(doc, items) == [x \in SeqRange(items) |-> HostText(doc[CellOf(x)])]

\* The outcomes of context.sync() for an operation's queue against the workbook
\* doc: the workbook afterwards and what the operation then returns or throws.
\* A rejected batch may leave the writes queued before the bad one applied.
SyncOutcomes(tool, a, doc) ==
    CASE tool = "modify_cells" ->
            LET es == ObjectEntries(a.cells)
                bad == FirstBadEntry(es)
            IN IF bad = 0
               THEN {[cells |-> ApplyWrites(doc, es), outcome |-> Fulfilled(StrResult("Success"))]}
               ELSE {[cells |-> d, outcome |-> Rejected(InvalidArgument)] :
                        d \in {doc, ApplyWrites(doc, SubSeq(es, 1, bad - 1))}}
      [] tool = "read_cells_values" ->
            IF \A x \in SeqRange(a.cells.items) : ValidAddress(x)
            THEN {[cells |-> doc, outcome |-> Fulfilled(ObjResult(ReadValues(doc, a.cells.items)))]}
            ELSE {[cells |-> doc, outcome |-> Rejected(InvalidArgument)]}
      [] tool = "read_cells_text" ->
            IF \A x \in SeqRange(a.cells.items) : ValidAddress(x)
            THEN {[cells |-> doc, outcome |-> Fulfilled(ObjResult(ReadText(doc, a.cells.items)))]}
            ELSE {[cells |-> doc, outcome |-> Rejected(InvalidArgument)]}
      [] tool = "read_subtable" ->
            IF ValidBlock(a)
            THEN {[cells |-> doc, outcome |-> Fulfilled(ArrResult(SubtableRows(doc, a)))]}
            ELSE {[cells |-> doc, outcome |-> Rejected(InvalidArgument)]}
      [] tool = "extend" ->
            IF ValidAddress(a.source) /\ ValidAddress(a.target)
            THEN {[cells |-> [c \in Cells |->
                                IF c \in FillRange(CellOf(a.source), CellOf(a.target))
                                THEN Relative(doc[CellOf(a.source)],
                                              CellCol(c) - CellCol(CellOf(a.source)),
                                              CellRow(c) - CellRow(CellOf(a.source)))
                                ELSE doc[c]],
                   outcome |-> Fulfilled(StrResult("Extended"))]}
            ELSE {[cells |-> doc, outcome |-> Rejected(InvalidArgument)]}

\* sheet.getRange(dataRange) of create_chart accepted by the host.
ValidChartRange(r) == r \in {"A1:B2"}

\* sheet.getRange(position) of create_chart accepted by the host.
ValidPosition(p) == p = "D2" \/ ValidAddress(p)

\* const { dataRange, chartType = "Column", ... } = options: a default stands
\* in for a property the object does not have, never for "", 0 or false.
ChartOptions(a) ==
    [dataRange |-> a.dataRange,
     chartType |-> IF "chartType" \in a.given THEN a.chartType ELSE "Column",
     title |-> IF "title" \in a.given THEN a.title ELSE "Chart",
     hasHeaders |-> IF "hasHeaders" \in a.given THEN a.hasHeaders = "true" ELSE TRUE,
     position |-> IF "position" \in a.given THEN a.position ELSE "D2",
     width |-> IF "width" \in a.given THEN a.width ELSE 400,
     height |-> IF "height" \in a.given THEN a.height ELSE 300]

\* The chart that the batch of create_chart (call id) queues: charts.add, the
\* title, the position and the size.
NewChart(id, a) ==
    LET o == ChartOptions(a)
    IN [id |-> id, chartType |-> o.chartType, dataRange |-> o.dataRange,
        seriesBy |-> IF o.hasHeaders THEN "Auto" ELSE "Columns",
        title |-> o.title, position |-> o.position,
        width |-> o.width, height |-> o.height]

\* The charts on the sheet before any call.
InitialCharts ==
    {[id |-> 0, chartType |-> "Pie", dataRange |-> "A1:B2", seriesBy |-> "Auto",
      title |-> "Before", position |-> "A1", width |-> 200, height |-> 100]}

\* Mutant: deleting on a sheet without charts is an error.
ChartSyncOutcomesStrict(tool, a, seq, loaded, ch) ==
    CASE tool = "create_chart" ->
            {[charts |-> ch \cup {NewChart(seq, a)},
              outcome |-> Fulfilled(StrResult("Chart created successfully"))]}
      [] tool = "delete_all_charts" ->
            IF loaded # {}
            THEN {[charts |-> ch \ loaded,
                   outcome |-> Fulfilled(StrResult("All charts deleted"))]}
            ELSE {[charts |-> ch, outcome |-> Rejected("No charts to delete")]}

\* The outcomes of the sync that ends a chart operation against the charts ch:
\* create_chart adds the chart of call seq; delete_all_charts deletes the items
\* it loaded at its first sync. Deleting an item that another call has deleted
\* in the meantime is left open: the host accepts or rejects the batch.
\* So is sheet.getRange(undefined) of a create_chart without dataRange: the
\* address is optional, and the host charts the whole sheet or rejects.
ChartSyncOutcomes(tool, a, seq, loaded, ch) ==
    CASE tool = "create_chart" ->
            IF "dataRange" \notin a.given \/ a.dataRange = ""
            THEN {[charts |-> ch \cup {NewChart(seq, a)},
                   outcome |-> Fulfilled(StrResult("Chart created successfully"))],
                  [charts |-> ch, outcome |-> Rejected(InvalidArgument)]}
            ELSE IF ValidChartRange(a.dataRange) /\ ValidPosition(ChartOptions(a).position)
            THEN {[charts |-> ch \cup {NewChart(seq, a)},
                   outcome |-> Fulfilled(StrResult("Chart created successfully"))]}
            ELSE {[charts |-> ch, outcome |-> Rejected(InvalidArgument)]}
      [] tool = "delete_all_charts" ->
            IF loaded \subseteq ch
            THEN {[charts |-> ch \ loaded,
                   outcome |-> Fulfilled(StrResult("All charts deleted"))]}
            ELSE {[charts |-> ch \ loaded,
                   outcome |-> Fulfilled(StrResult("All charts deleted"))],
                  [charts |-> ch \ loaded, outcome |-> Rejected(InvalidArgument)],
                  [charts |-> ch, outcome |-> Rejected(InvalidArgument)]}

ChartTools == {"create_chart", "delete_all_charts"}

-----------------------------------------------------------------------------
(* The workbook behind the operations. The variables cells and charts hold *)
(* the cells of columns A-B, rows 1-2 and the charts of the active sheet;  *)
(* book holds the rest: the sheet names in tab order, the active sheet,    *)
(* the active sheet's cells outside that window, its formats, tables,      *)
(* protection and selection, the other sheets, and the workbook's names.   *)

\* The workbook before any operation: one sheet, nothing selected but A1.
InitialBook ==
    [sheets |-> <<"Sheet1">>, active |-> "Sheet1", far |-> {}, formats |-> {},
     tables |-> << >>, protection |-> [protected |-> FALSE, password |-> ""],
     selection |-> "A1", parked |-> << >>, names |-> << >>]

\* What the host does with the queue of operation tool (call seq, args a) when it
\* processes the sync that ends the batch, against the active sheet's cells doc
\* and charts ch and the workbook bk: the cells, charts and workbook afterwards
\* and what the operation then returns or throws. A formula is a reference to
\* one cell ("=B1"); the number formats that change a text are "0.00".
HostOutcomes(tool, a, seq, loaded, doc, ch, bk) ==
    LET Still(d, c, o) == [cells |-> d, charts |-> c, book |-> bk, outcome |-> o]
        Denied == {Still(doc, ch, Rejected(HostError("AccessDenied")))}
        \* On a sheet without formulas and formats a cell shows what it holds.
        Plain == bk.far = {} /\ bk.formats = {} /\ \A x \in Cells : doc[x].type # "formula"
        Reads == {"read_cells_text", "read_cells_values", "read_subtable"}
    IN
    CASE tool \in ChartTools ->
            IF bk.protection.protected /\ (tool = "create_chart" \/ loaded # {})
            THEN Denied
            ELSE {Still(doc, o.charts, o.outcome) :
                     o \in ChartSyncOutcomes(tool, a, seq, loaded, ch)}
      [] tool \in {"modify_cells", "extend"} ->
            IF bk.protection.protected THEN Denied
            ELSE {Still(o.cells, ch, o.outcome) : o \in SyncOutcomes(tool, a, doc)}
      [] tool \in Reads /\ Plain ->
            {Still(doc, ch, o.outcome) : o \in SyncOutcomes(tool, a, doc)}
      [] OTHER ->
    LET Has(p) == p \in DOMAIN a
        Letters == "ABCDEFGHIJKLMNOPQRSTUVWXYZ"
        Index(alphabet, x) ==
            IF \E i \in 1 .. Len(alphabet) : SubSeq(alphabet, i, i) = x
            THEN CHOOSE i \in 1 .. Len(alphabet) : SubSeq(alphabet, i, i) = x
            ELSE 0
        RECURSIVE Lower(_)
        Small(x, i) == IF i > 0 THEN SubSeq("abcdefghijklmnopqrstuvwxyz", i, i) ELSE x
        Lower(s) ==
            IF s = "" THEN ""
            ELSE Small(SubSeq(s, 1, 1), Index(Letters, SubSeq(s, 1, 1)))
                    \o Lower(SubSeq(s, 2, Len(s)))
        SameName(x, y) == Lower(x) = Lower(y)
        \* ---- addresses ----
        BoxName(b) ==
            IF b.c1 = b.c2 /\ b.r1 = b.r2 THEN CellName(b.c1, b.r1)
            ELSE CellName(b.c1, b.r1) \o ":" \o CellName(b.c2, b.r2)
        Address(b) == bk.active \o "!" \o BoxName(b)
        InBox(b, c, r) == b.ok /\ c >= b.c1 /\ c <= b.c2 /\ r >= b.r1 /\ r <= b.r2
        OneCell(b) == b.ok /\ b.c1 = b.c2 /\ b.r1 = b.r2
        Overlap(b, d) ==
            b.ok /\ d.ok /\ b.c1 <= d.c2 /\ d.c1 <= b.c2 /\ b.r1 <= d.r2 /\ d.r1 <= b.r2
        \* sheet.getRange(address): the address is optional, and without one the
        \* range is the whole sheet, where the host does not reject the call
        Whole == [ok |-> TRUE, c1 |-> 1, r1 |-> 1, c2 |-> 16384, r2 |-> 1048576]
        Target == IF Has("address") THEN Box(a.address) ELSE Whole
        \* A range of whole columns or rows: the host loads no values for it.
        Unbounded(b) == b.c2 >= Whole.c2 \/ b.r2 >= Whole.r2
        \* ---- the cells of a sheet: its non-empty cells by column and row ----
        Tracked(c, r) == c <= Len(Cols) /\ r \in Rows
        Filled(d, far) ==
            {[col |-> CellCol(x), row |-> CellRow(x), cell |-> d[x]] :
                x \in {y \in Cells : d[y] # EmptyCell}} \cup far
        Sheet == Filled(doc, bk.far)
        At(sp, c, r) ==
            IF \E e \in sp : e.col = c /\ e.row = r
            THEN (CHOOSE e \in sp : e.col = c /\ e.row = r).cell
            ELSE EmptyCell
        Near(sp) == [x \in Cells |-> At(sp, CellCol(x), CellRow(x))]
        Far(sp) == {e \in sp : ~Tracked(e.col, e.row)}
        Put(sp, c, r, v) ==
            {e \in sp : e.col # c \/ e.row # r}
                \cup (IF v = EmptyCell THEN {} ELSE {[col |-> c, row |-> r, cell |-> v]})
        \* ---- formulas: the value of a cell is the value of the cell it names ----
        Formula(c, r) == [type |-> "formula", val |-> "=" \o CellName(c, r)]
        BadRef == [type |-> "formula", val |-> "=#REF!"]
        Ref(v) == Box(IF v.type = "formula" THEN SubSeq(v.val, 2, Len(v.val)) ELSE "")
        Blank(w) == IF w = EmptyCell THEN Num("0") ELSE w
        RECURSIVE Value(_, _, _, _)
        Value(sp, c, r, fuel) ==
            LET Of(v, ref) ==
                    IF v.type # "formula" THEN v
                    ELSE IF ~ref.ok THEN Str("#REF!")
                    ELSE IF fuel = 0 THEN Num("0")
                    ELSE Blank(Value(sp, ref.c1, ref.r1, fuel - 1))
            IN Of(At(sp, c, r), Ref(At(sp, c, r)))
        \* ---- formats: the properties set on cells ----
        FormatAt(fm, c, r, p) ==
            IF \E f \in fm : f.col = c /\ f.row = r /\ f.property = p
            THEN (CHOOSE f \in fm : f.col = c /\ f.row = r /\ f.property = p).value
            ELSE "General"
        \* A format of every column of a row is kept at column 0, one of every row
        \* of a column at row 0; such a range takes no number format.
        Every(lo, hi, all) == IF lo = 1 /\ hi = all THEN {0} ELSE lo .. hi
        Covers(b, c, r) ==
            b.ok /\ c \in Every(b.c1, b.c2, Whole.c2) /\ r \in Every(b.r1, b.r2, Whole.r2)
        Formatted(fm, b, p, v) ==
            {f \in fm : ~(Covers(b, f.col, f.row) /\ f.property = p)}
                \cup {[col |-> c, row |-> r, property |-> p, value |-> v] :
                         c \in Every(b.c1, b.c2, Whole.c2), r \in Every(b.r1, b.r2, Whole.r2)}
        Display(v, format) ==
            IF v.type = "number" /\ format = "0.00" THEN v.val \o ".00" ELSE v.val
        Text(sp, fm, c, r) == Display(Value(sp, c, r, 8), FormatAt(fm, c, r, "numberFormat"))
        \* ---- range.load(property) ----
        Written(v) == IF v.type = "formula" THEN Str(v.val) ELSE v
        Prop(sp, fm, c, r, property) ==
            CASE property = "values" -> Value(sp, c, r, 8)
              [] property = "text" -> Str(Text(sp, fm, c, r))
              [] property = "formulas" -> Written(At(sp, c, r))
        Grid(sp, fm, b, property) ==
            [i \in 1 .. (b.r2 - b.r1 + 1) |->
                [j \in 1 .. (b.c2 - b.c1 + 1) |->
                    Prop(sp, fm, b.c1 + j - 1, b.r1 + i - 1, property)]]
        Shown(property) ==
            [x \in Cells |-> Prop(Sheet, bk.formats, CellCol(x), CellRow(x), property)]
        GridResult(g) ==
            [kind |-> "grid", str |-> "", obj |-> NoObj, arr |-> << >>, rows |-> g]
        ValResult(v) ==
            [StrResult(v.val) EXCEPT !.kind = IF v.type = "number" THEN "number" ELSE "string"]
        \* ---- the sheets ----
        Here ==
            [cells |-> doc, charts |-> ch, far |-> bk.far, formats |-> bk.formats,
             tables |-> bk.tables, protection |-> bk.protection, selection |-> bk.selection]
        NewSheet ==
            [cells |-> [x \in Cells |-> EmptyCell], charts |-> {}, far |-> {}, formats |-> {},
             tables |-> << >>, protection |-> [protected |-> FALSE, password |-> ""],
             selection |-> "A1"]
        With(sp) == [Here EXCEPT !.cells = Near(sp), !.far = Far(sp)]
        Goes(s, b, o) ==
            [cells |-> s.cells, charts |-> s.charts,
             book |-> [b EXCEPT !.far = s.far, !.formats = s.formats, !.tables = s.tables,
                                !.protection = s.protection, !.selection = s.selection],
             outcome |-> o]
        Done(s, b, r) == {Goes(s, b, Fulfilled(r))}
        Same(r) == Done(Here, bk, r)
        Fails(code) == {Goes(Here, bk, Rejected(HostError(code)))}
        Protected == bk.protection.protected
        SheetExists(n) == \E i \in DOMAIN bk.sheets : SameName(bk.sheets[i], n)
        SheetNamed(n) == bk.sheets[CHOOSE i \in DOMAIN bk.sheets : SameName(bk.sheets[i], n)]
        ValidSheetName(n) ==
            /\ Len(n) >= 1 /\ Len(n) <= 31
            /\ \A i \in 1 .. Len(n) : SubSeq(n, i, i) \notin {":", "\\", "/", "?", "*", "[", "]"}
        DefaultSheetName ==
            "Sheet" \o ToString(CHOOSE k \in 1 .. Len(bk.sheets) + 1 :
                                   /\ ~SheetExists("Sheet" \o ToString(k))
                                   /\ \A j \in 1 .. k - 1 : SheetExists("Sheet" \o ToString(j)))
        Without(s, n) == SelectSeq(s, LAMBDA x : x # n)
        Renamed(s, n, m) == [i \in DOMAIN s |-> IF s[i] = n THEN m ELSE s[i]]
        \* The sheets that are not shown once sheet n is: the others, and the active one.
        Parked(n) ==
            [m \in (DOMAIN bk.parked \cup {bk.active}) \ {n} |->
                IF m = bk.active THEN Here ELSE bk.parked[m]]
        SheetOf(n) == IF n = bk.active THEN Here ELSE bk.parked[n]
        \* ---- names: a name is valid if it is no address and has no blank ----
        ValidName(n) == n # "" /\ ~Box(n).ok /\ Index(n, " ") = 0
        NameExists(n) == \E i \in DOMAIN bk.names : SameName(bk.names[i].name, n)
        NameOf(n) == bk.names[CHOOSE i \in DOMAIN bk.names : SameName(bk.names[i].name, n)]
        TableExists(n) == \E i \in DOMAIN bk.tables : SameName(bk.tables[i].name, n)
        TableTaken(n) ==
            \/ TableExists(n)
            \/ \E m \in DOMAIN bk.parked :
                  \E i \in DOMAIN bk.parked[m].tables : SameName(bk.parked[m].tables[i].name, n)
        DefaultTableName ==
            "Table" \o ToString(CHOOSE k \in 1 .. 9 :
                                   /\ ~TableTaken("Table" \o ToString(k))
                                   /\ \A j \in 1 .. k - 1 : TableTaken("Table" \o ToString(j)))
        \* ---- cells inserted or deleted: the cells after them move ----
        \* sh: count cells are inserted or deleted at position start of the columns
        \* (axis "rows": the cells below move) or rows (axis "columns": the cells to
        \* the right move) from..to.
        Along(sh, c, r) == IF sh.axis = "rows" THEN r ELSE c
        Across(sh, c, r) == IF sh.axis = "rows" THEN c ELSE r
        Moves(sh, c, r) ==
            Across(sh, c, r) >= sh.from /\ Across(sh, c, r) <= sh.to /\ Along(sh, c, r) >= sh.start
        Gone(sh, c, r) ==
            sh.kind = "delete" /\ Moves(sh, c, r) /\ Along(sh, c, r) < sh.start + sh.count
        Step(sh) == IF sh.kind = "insert" THEN sh.count ELSE 0 - sh.count
        MovedCol(sh, c, r) == IF Moves(sh, c, r) /\ sh.axis = "columns" THEN c + Step(sh) ELSE c
        MovedRow(sh, c, r) == IF Moves(sh, c, r) /\ sh.axis = "rows" THEN r + Step(sh) ELSE r
        \* A range that lies in the columns (rows) of the shift moves, grows or
        \* shrinks with its cells; a range that reaches beyond them stays.
        \* Where position x goes; a deleted position goes to the position gone.
        Slid(sh, x, gone) ==
            IF x < sh.start THEN x
            ELSE IF sh.kind = "insert" THEN x + sh.count
            ELSE IF x >= sh.start + sh.count THEN x - sh.count
            ELSE gone
        Between(sh, b, lo, hi) ==
            IF hi < lo THEN [b EXCEPT !.ok = FALSE]
            ELSE IF sh.axis = "rows" THEN [b EXCEPT !.r1 = lo, !.r2 = hi]
            ELSE [b EXCEPT !.c1 = lo, !.c2 = hi]
        MovedBox(sh, b) ==
            IF ~b.ok \/ Across(sh, b.c1, b.r1) < sh.from \/ Across(sh, b.c2, b.r2) > sh.to
            THEN b
            ELSE Between(sh, b, Slid(sh, Along(sh, b.c1, b.r1), sh.start),
                         Slid(sh, Along(sh, b.c2, b.r2), sh.start - 1))
        Naming(b) == IF b.ok THEN Formula(b.c1, b.r1) ELSE BadRef
        Repointed(sh, v, ref) ==
            IF v.type # "formula" \/ ~ref.ok THEN v ELSE Naming(MovedBox(sh, ref))
        MovedCell(sh, v) == Repointed(sh, v, Ref(v))
        ShiftedCells(sh, sp) ==
            {[col |-> MovedCol(sh, e.col, e.row), row |-> MovedRow(sh, e.col, e.row),
              cell |-> MovedCell(sh, e.cell)] : e \in {x \in sp : ~Gone(sh, x.col, x.row)}}
        ShiftedFormats(sh, fm) ==
            {[f EXCEPT !.col = MovedCol(sh, f.col, f.row), !.row = MovedRow(sh, f.col, f.row)] :
                f \in {x \in fm : ~Gone(sh, x.col, x.row)}}
        ShiftedTables(sh, ts) ==
            SelectSeq([i \in DOMAIN ts |-> MovedBox(sh, ts[i])], LAMBDA t : t.ok)
        ShiftedNames(sh, ns) ==
            [i \in DOMAIN ns |-> IF ns[i].sheet = bk.active THEN MovedBox(sh, ns[i]) ELSE ns[i]]
        \* The host refuses to move some of the columns (rows) of a table.
        Blocked(sh, ts) ==
            \E i \in DOMAIN ts :
                /\ Along(sh, ts[i].c2, ts[i].r2) >= sh.start
                /\ Across(sh, ts[i].c1, ts[i].r1) <= sh.to
                /\ Across(sh, ts[i].c2, ts[i].r2) >= sh.from
                /\ \/ Across(sh, ts[i].c1, ts[i].r1) < sh.from
                   \/ Across(sh, ts[i].c2, ts[i].r2) > sh.to
        ShiftedSheet(sh) ==
            [With(ShiftedCells(sh, Sheet)) EXCEPT !.formats = ShiftedFormats(sh, bk.formats),
                                                  !.tables = ShiftedTables(sh, bk.tables)]
        Shifts(sh, o) ==
            IF Protected THEN Fails("AccessDenied")
            ELSE IF Blocked(sh, bk.tables) THEN Fails("InsertDeleteConflict")
            ELSE {Goes(ShiftedSheet(sh), [bk EXCEPT !.names = ShiftedNames(sh, @)], o)}
        RowShift(kind) ==
            [kind |-> kind, axis |-> "rows", from |-> 1, to |-> 1,
             start |-> a.startRow, count |-> a.count]
        \* sheet.getRange(`${column}:${column}`): a letter names a whole column
        \* ("A:A"), a number a whole row ("1:1"), a cell address that cell
        \* ("A1:A1"); other texts name no range.
        WholeColumn == Has("column") /\ Len(a.column) = 1 /\ Box(a.column \o "1").ok
        WholeRow == Has("column") /\ \E n \in 1 .. 99 : ToString(n) = a.column
        Column ==
            IF WholeColumn
            THEN [Box(a.column \o "1") EXCEPT !.r1 = 1, !.r2 = 1048576]
            ELSE IF WholeRow
            THEN [ok |-> TRUE, c1 |-> 1, c2 |-> 16384,
                  r1 |-> CHOOSE n \in 1 .. 99 : ToString(n) = a.column,
                  r2 |-> CHOOSE n \in 1 .. 99 : ToString(n) = a.column]
            ELSE Box((IF Has("column") THEN a.column \o ":" \o a.column ELSE ""))
        ColumnShift(kind, n) ==
            [kind |-> kind, axis |-> "columns", from |-> Column.r1, to |-> Column.r2,
             start |-> Column.c1, count |-> n * (Column.c2 - Column.c1 + 1)]
        Count == IF Has("count") THEN ToString(a.count) ELSE "undefined"
        Times == IF Has("count") /\ a.count > 0 THEN a.count ELSE 0
        \* ---- sorting: numbers, then texts; blank cells last ----
        RECURSIVE NumVal(_)
        NumVal(s) ==
            IF s = "" THEN 0
            ELSE 10 * NumVal(SubSeq(s, 1, Len(s) - 1))
                    + Index("0123456789", SubSeq(s, Len(s), Len(s))) - 1
        Order(x) == Index(" #!0123456789abcdefghijklmnopqrstuvwxyz", x)
        RECURSIVE TextLess(_, _)
        TextLess(s, t) ==
            IF t = "" THEN FALSE
            ELSE IF s = "" THEN TRUE
            ELSE IF Order(SubSeq(s, 1, 1)) # Order(SubSeq(t, 1, 1))
                 THEN Order(SubSeq(s, 1, 1)) < Order(SubSeq(t, 1, 1))
                 ELSE TextLess(SubSeq(s, 2, Len(s)), SubSeq(t, 2, Len(t)))
        Less(v, w) ==
            IF v.type # w.type THEN v.type = "number"
            ELSE IF v.type = "number" THEN NumVal(v.val) < NumVal(w.val)
            ELSE TextLess(Lower(v.val), Lower(w.val))
        Ascending == IF Has("ascending") THEN a.ascending ELSE TRUE
        Key(r) == Value(Sheet, Target.c1 + a.columnIndex, r, 8)
        Ahead(v, w) ==
            Less(IF Ascending THEN v ELSE w, IF Ascending THEN w ELSE v)
        \* Row q, with key v, comes before row r, with key w.
        Precedes(q, v, r, w) ==
            IF v = EmptyCell /\ w = EmptyCell THEN q < r
            ELSE IF v = EmptyCell THEN FALSE
            ELSE IF w = EmptyCell THEN TRUE
            ELSE IF Ahead(v, w) THEN TRUE
            ELSE IF Ahead(w, v) THEN FALSE
            ELSE q < r
        Before(q, r) == Precedes(q, Key(q), r, Key(r))
        \* The rows below the last row that holds anything are blank, and stay last.
        LastRow ==
            LET rows == {Target.r1} \cup {e.row : e \in Sheet} \cup {f.row : f \in {x \in bk.formats : x.col > 0}}
            IN CHOOSE r \in rows : \A q \in rows : q <= r
        SortedRow(r) ==
            Target.r1 + Cardinality({q \in Target.r1 .. Min(Target.r2, LastRow) : Before(q, r)})
        MovedTo(e, row) ==
            [col |-> e.col, row |-> row, cell |-> Relative(e.cell, 0, row - e.row)]
        Sorted(sp) ==
            {IF InBox(Target, e.col, e.row) THEN MovedTo(e, SortedRow(e.row)) ELSE e : e \in sp}
        SortedFormats(fm) ==
            {IF InBox(Target, f.col, f.row) THEN [f EXCEPT !.row = SortedRow(f.row)] ELSE f :
                f \in fm}
        \* ---- searching: the text is found in any part of a cell, in any case ----
        Contains(text, s) ==
            \E i \in 1 .. Len(text) : Lower(SubSeq(text, i, i + Len(s) - 1)) = Lower(s)
        Found ==
            {e \in Sheet : /\ InBox(Target, e.col, e.row)
                           /\ Contains(Text(Sheet, bk.formats, e.col, e.row), a.searchText)}
        First(found) ==
            CHOOSE e \in found :
                \A f \in found : e.row < f.row \/ (e.row = f.row /\ e.col <= f.col)
        One(e) == [ok |-> TRUE, c1 |-> e.col, r1 |-> e.row, c2 |-> e.col, r2 |-> e.row]
        RECURSIVE Replaced(_)
        Replaced(t) ==
            IF Len(t) < Len(a.searchText) THEN t
            ELSE IF Lower(SubSeq(t, 1, Len(a.searchText))) = Lower(a.searchText)
                 THEN a.replaceText \o Replaced(SubSeq(t, Len(a.searchText) + 1, Len(t)))
                 ELSE SubSeq(t, 1, 1) \o Replaced(SubSeq(t, 2, Len(t)))
        Answer(found) ==
            IF found = {} THEN Fails("ItemNotFound")
            ELSE Same(ArrResult(<<Address(One(First(found)))>>))
        Hits == {e \in Sheet : InBox(Target, e.col, e.row) /\ Contains(e.cell.val, a.searchText)}
        Rewritten(e, text) == [e EXCEPT !.cell = HostCoerce(Str(text))]
        ReplacedCells(hits) ==
            {e \in Sheet : e \notin hits}
                \cup {e \in {Rewritten(h, Replaced(h.cell.val)) : h \in hits} :
                         e.cell.val # ""}
        Replaces(hits) ==
            IF Protected /\ hits # {} THEN Fails("AccessDenied")
            ELSE Done(With(ReplacedCells(hits)), bk,
                      StrResult(ToString(Cardinality(hits)) \o " replacement(s) made"))
        \* ---- tables: the first row of a table holds its column names ----
        Headers == IF Has("hasHeaders") THEN a.hasHeaders = "true" ELSE TRUE
        HeaderShift ==
            [kind |-> "insert", axis |-> "rows", from |-> Target.c1, to |-> Target.c2,
             start |-> Target.r1, count |-> 1]
        TableBox(n) ==
            [name |-> n, ok |-> TRUE, c1 |-> Target.c1, r1 |-> Target.r1, c2 |-> Target.c2,
             r2 |-> IF Headers THEN Target.r2 ELSE Target.r2 + 1]
        Header(c, text) ==
            IF Headers /\ text # "" THEN Str(text)
            ELSE Str("Column" \o ToString(c - Target.c1 + 1))
        RECURSIVE Named(_, _)
        Named(sp, c) ==
            IF c > Target.c2 THEN sp
            ELSE Named(Put(sp, c, Target.r1, Header(c, Text(Sheet, bk.formats, c, Target.r1))),
                       c + 1)
        TableSheet(n) ==
            IF Headers
            THEN [With(Named(Sheet, Target.c1)) EXCEPT !.tables = Append(@, TableBox(n))]
            ELSE [With(Named(ShiftedCells(HeaderShift, Sheet), Target.c1))
                     EXCEPT !.formats = ShiftedFormats(HeaderShift, bk.formats),
                            !.tables = Append(ShiftedTables(HeaderShift, bk.tables), TableBox(n))]
        TableBook == IF Headers THEN bk ELSE [bk EXCEPT !.names = ShiftedNames(HeaderShift, @)]
        TableNamed(n) == bk.tables[CHOOSE i \in DOMAIN bk.tables : SameName(bk.tables[i].name, n)]
        Cleared(sp, b) == {e \in sp : ~InBox(b, e.col, e.row)}
        \* ---- the used range: the cells with a value or a format of their own ----
        Used ==
            {<<e.col, e.row>> : e \in Sheet}
                \cup {<<f.col, f.row>> : f \in {x \in bk.formats : x.col > 0 /\ x.row > 0}}
        UsedBox ==
            IF Used = {} THEN [ok |-> TRUE, c1 |-> 1, r1 |-> 1, c2 |-> 1, r2 |-> 1]
            ELSE [ok |-> TRUE,
                  c1 |-> CHOOSE c \in {u[1] : u \in Used} : \A u \in Used : c <= u[1],
                  r1 |-> CHOOSE r \in {u[2] : u \in Used} : \A u \in Used : r <= u[2],
                  c2 |-> CHOOSE c \in {u[1] : u \in Used} : \A u \in Used : c >= u[1],
                  r2 |-> CHOOSE r \in {u[2] : u \in Used} : \A u \in Used : r >= u[2]]
        Selected(b) ==
            [GridResult(Grid(Sheet, bk.formats, b, "values"))
                EXCEPT !.kind = "selection", !.str = Address(b)]
        \* ---- format_cells: the properties that the callback assigns ----
        Truthy(p) ==
            p \in DOMAIN a.format /\ (IF p = "fontSize" THEN a.format[p] # 0 ELSE a.format[p] # "")
        FormatValue(p) ==
            CASE p = "fontSize" -> ToString(a.format[p])
              [] p \in {"bold", "italic"} -> IF a.format[p] THEN "true" ELSE "false"
              [] OTHER -> a.format[p]
        Assigned ==
            {p \in {"backgroundColor", "fontColor", "fontSize", "horizontalAlignment",
                    "verticalAlignment"} : Truthy(p)}
                \cup {p \in {"bold", "italic"} : p \in DOMAIN a.format}
        RECURSIVE Applied(_, _)
        Applied(fm, ps) ==
            IF ps = {} THEN fm
            ELSE LET p == CHOOSE q \in ps : TRUE
                 IN Applied(Formatted(fm, Target, p, FormatValue(p)), ps \ {p})
        Style == IF Has("style") THEN a.style ELSE "Thin"
        Edge(b, side) ==
            CASE side = "EdgeTop" -> [b EXCEPT !.r2 = b.r1]
              [] side = "EdgeBottom" -> [b EXCEPT !.r1 = b.r2]
              [] side = "EdgeLeft" -> [b EXCEPT !.c2 = b.c1]
              [] side = "EdgeRight" -> [b EXCEPT !.c1 = b.c2]
        Bordered(fm) ==
            Formatted(Formatted(Formatted(Formatted(fm,
                Edge(Target, "EdgeTop"), "EdgeTop", Style),
                Edge(Target, "EdgeBottom"), "EdgeBottom", Style),
                Edge(Target, "EdgeLeft"), "EdgeLeft", Style),
                Edge(Target, "EdgeRight"), "EdgeRight", Style)
        Refused ==
            IF ~Has("address")
                  /\ tool \in {"read_range", "clear_range", "format_cells", "add_border",
                               "set_number_format", "auto_fit_columns", "auto_fit_rows",
                               "create_table", "get_formula", "set_formula", "sort_range",
                               "find_in_range", "replace_in_range", "create_named_range"}
            THEN Fails("InvalidArgument")
            ELSE {}
    IN Refused \cup
       (CASE tool \in Reads ->
              {Goes(Here, bk, o.outcome) :
                  o \in SyncOutcomes(tool, a,
                                     Shown(IF tool = "read_cells_values" THEN "values"
                                           ELSE "text"))}
         \* range.load("values"); result = range.values
         [] tool = "read_range" ->
              IF ~Target.ok THEN Fails("InvalidArgument")
              ELSE IF Unbounded(Target) THEN Same(NullResult)
              ELSE Same(GridResult(Grid(Sheet, bk.formats, Target, "values")))
         \* range.clear(Excel.ClearApplyTo.contents)
         [] tool = "clear_range" ->
              IF ~Target.ok THEN Fails("InvalidArgument")
              ELSE IF Protected THEN Fails("AccessDenied")
              ELSE Done(With(Cleared(Sheet, Target)), bk, StrResult("Range cleared"))
         [] tool = "get_active_sheet" -> Same(StrResult(bk.active))
         [] tool = "list_sheets" -> Same(ArrResult(bk.sheets))
         \* worksheets.add(name); sheet.activate(): without a name the host names it
         [] tool = "create_sheet" ->
              IF Has("name") /\ ~ValidSheetName(a.name) THEN Fails("InvalidArgument")
              ELSE IF Has("name") /\ SheetExists(a.name) THEN Fails("ItemAlreadyExists")
              ELSE LET n == IF Has("name") THEN a.name ELSE DefaultSheetName
                   IN Done(NewSheet,
                           [bk EXCEPT !.sheets = Append(@, n), !.active = n,
                                      !.parked = Parked(n)],
                           StrResult("Sheet '" \o (IF Has("name") THEN a.name ELSE "undefined")
                                         \o "' created"))
         [] tool = "activate_sheet" ->
              IF ~Has("name") \/ ~SheetExists(IF Has("name") THEN a.name ELSE "")
              THEN Fails("ItemNotFound")
              ELSE Done(SheetOf(SheetNamed(a.name)),
                        [bk EXCEPT !.active = SheetNamed(a.name),
                                   !.parked = Parked(SheetNamed(a.name))],
                        StrResult("Sheet '" \o a.name \o "' activated"))
         \* sheet.delete(): the last sheet stays; another sheet becomes the active one
         [] tool = "delete_sheet" ->
              IF ~Has("name") \/ ~SheetExists(IF Has("name") THEN a.name ELSE "")
              THEN Fails("ItemNotFound")
              ELSE IF Len(bk.sheets) = 1 THEN Fails("InvalidOperation")
              ELSE LET n == SheetNamed(a.name)
                       left == [bk EXCEPT !.sheets = Without(@, n),
                                          !.names = [i \in DOMAIN @ |->
                                                        IF @[i].sheet = n
                                                        THEN [@[i] EXCEPT !.ok = FALSE]
                                                        ELSE @[i]]]
                       o == Fulfilled(StrResult("Sheet '" \o a.name \o "' deleted"))
                   IN IF n # bk.active
                      THEN {Goes(Here, [left EXCEPT !.parked =
                                           [m \in DOMAIN bk.parked \ {n} |-> bk.parked[m]]], o)}
                      ELSE {Goes(bk.parked[m],
                                 [left EXCEPT !.active = m,
                                              !.parked = [k \in DOMAIN bk.parked \ {m} |->
                                                             bk.parked[k]]], o) :
                               m \in DOMAIN bk.parked}
         [] tool = "rename_sheet" ->
              IF ~Has("oldName") \/ ~SheetExists(IF Has("oldName") THEN a.oldName ELSE "")
              THEN Fails("ItemNotFound")
              ELSE IF ~Has("newName") \/ ~ValidSheetName(IF Has("newName") THEN a.newName ELSE "")
              THEN Fails("InvalidArgument")
              ELSE IF SheetExists(a.newName) /\ ~SameName(a.newName, a.oldName)
              THEN Fails("ItemAlreadyExists")
              ELSE LET n == SheetNamed(a.oldName)
                   IN Done(Here,
                           [bk EXCEPT !.sheets = Renamed(@, n, a.newName),
                                      !.active = IF @ = n THEN a.newName ELSE @,
                                      !.parked = [m \in {IF k = n THEN a.newName ELSE k :
                                                            k \in DOMAIN bk.parked} |->
                                                     IF m = a.newName /\ n \in DOMAIN bk.parked
                                                     THEN bk.parked[n] ELSE bk.parked[m]],
                                      !.names = [i \in DOMAIN @ |->
                                                    IF @[i].sheet = n
                                                    THEN [@[i] EXCEPT !.sheet = a.newName]
                                                    ELSE @[i]]],
                           StrResult("Sheet renamed from '" \o a.oldName \o "' to '"
                                         \o a.newName \o "'"))
         \* if (format.backgroundColor) range.format.fill.color = ...; and so on
         [] tool = "format_cells" ->
              IF ~Target.ok THEN Fails("InvalidArgument")
              ELSE IF Protected THEN Fails("AccessDenied")
              ELSE Done([Here EXCEPT !.formats = Applied(@, Assigned)], bk,
                        StrResult("Format applied"))
         [] tool = "add_border" ->
              IF ~Target.ok THEN Fails("InvalidArgument")
              ELSE IF Protected THEN Fails("AccessDenied")
              ELSE Done([Here EXCEPT !.formats = Bordered(@)], bk, StrResult("Border added"))
         \* range.numberFormat = [[format]]: one format, for a range of one cell
         [] tool = "set_number_format" ->
              IF ~OneCell(Target) \/ ~Has("numberFormat") THEN Fails("InvalidArgument")
              ELSE IF Protected THEN Fails("AccessDenied")
              ELSE Done([Here EXCEPT !.formats =
                                        Formatted(@, Target, "numberFormat", a.numberFormat)],
                        bk, StrResult("Number format applied"))
         \* sheet.getRangeByIndexes(startRow - 1, 0, count, 1): cells of column A
         [] tool = "insert_rows" ->
              IF ~Has("startRow") \/ ~Has("count") THEN Fails("InvalidArgument")
              ELSE IF a.startRow < 1 \/ a.count < 1 THEN Fails("InvalidArgument")
              ELSE Shifts(RowShift("insert"),
                          Fulfilled(StrResult(ToString(a.count) \o " row(s) inserted at row "
                                                  \o ToString(a.startRow))))
         [] tool = "delete_rows" ->
              IF ~Has("startRow") \/ ~Has("count") THEN Fails("InvalidArgument")
              ELSE IF a.startRow < 1 \/ a.count < 1 THEN Fails("InvalidArgument")
              ELSE Shifts(RowShift("delete"),
                          Fulfilled(StrResult(ToString(a.count) \o " row(s) deleted from row "
                                                  \o ToString(a.startRow))))
         \* for (i < count) range.insert(right), on the range `${column}:${column}`.
         \* The cells of a whole row have no room to move right: the source does
         \* not tell whether the host rejects the batch or leaves the sheet as it is.
         [] tool = "insert_columns" ->
              IF ~Has("column") \/ ~Column.ok
              THEN Fails("InvalidArgument")
              ELSE IF Times = 0
              THEN Same(StrResult(Count \o " column(s) inserted at " \o a.column))
              ELSE IF WholeRow
              THEN Fails("InvalidArgument") \cup Fails("InsertDeleteConflict")
                      \cup Same(StrResult(Count \o " column(s) inserted at " \o a.column))
              ELSE Shifts(ColumnShift("insert", Times),
                          Fulfilled(StrResult(Count \o " column(s) inserted at " \o a.column)))
         \* for (i < count) range.delete(left): after the first delete the range
         \* object names deleted cells; the host deletes the next column or rejects.
         \* On a whole row the host rejects the batch or deletes the cells of the row.
         [] tool = "delete_columns" ->
              IF ~Has("column") \/ ~Column.ok
              THEN Fails("InvalidArgument")
              ELSE IF Times = 0
              THEN Same(StrResult(Count \o " column(s) deleted from " \o a.column))
              ELSE IF WholeRow
              THEN Fails("InvalidArgument")
                      \cup Shifts(ColumnShift("delete", 1),
                                  Fulfilled(StrResult(Count \o " column(s) deleted from "
                                                          \o a.column)))
              ELSE Shifts(ColumnShift("delete", Times),
                          Fulfilled(StrResult(Count \o " column(s) deleted from " \o a.column)))
                     \cup (IF Times > 1 /\ ~Protected
                                /\ ~Blocked(ColumnShift("delete", 1), bk.tables)
                           THEN Shifts(ColumnShift("delete", 1),
                                       Rejected(HostError("InvalidReference")))
                           ELSE {})
         \* column widths and row heights are read by no operation
         [] tool \in {"auto_fit_columns", "auto_fit_rows"} ->
              IF ~Target.ok THEN Fails("InvalidArgument")
              ELSE IF Protected THEN Fails("AccessDenied")
              ELSE Same(StrResult(IF tool = "auto_fit_columns" THEN "Columns auto-fitted"
                                  ELSE "Rows auto-fitted"))
         \* sheet.tables.add(range, hasHeaders); table.name = tableName: a sync
         \* rejected for the name may leave the table, under the host's name
         [] tool = "create_table" ->
              IF ~Target.ok \/ Unbounded(Target) THEN Fails("InvalidArgument")
              ELSE IF Protected THEN Fails("AccessDenied")
              ELSE IF \E i \in DOMAIN bk.tables : Overlap(Target, bk.tables[i])
              THEN Fails("InvalidArgument")
              ELSE IF ~Headers /\ Blocked(HeaderShift, bk.tables)
              THEN Fails("InsertDeleteConflict")
              ELSE IF ~Has("tableName") \/ ~ValidName(IF Has("tableName") THEN a.tableName ELSE "")
              THEN Fails("InvalidArgument")
                     \cup {Goes(TableSheet(DefaultTableName), TableBook,
                                Rejected(HostError("InvalidArgument")))}
              ELSE IF TableTaken(a.tableName)
              THEN Fails("ItemAlreadyExists")
                     \cup {Goes(TableSheet(DefaultTableName), TableBook,
                                Rejected(HostError("ItemAlreadyExists")))}
              ELSE Done(TableSheet(a.tableName), TableBook,
                        StrResult("Table '" \o a.tableName \o "' created"))
         [] tool = "list_tables" ->
              Same(ArrResult([i \in DOMAIN bk.tables |-> bk.tables[i].name]))
         \* table.delete(): the table goes, and its cells' contents with it
         [] tool = "delete_table" ->
              IF ~Has("tableName") \/ ~TableExists(IF Has("tableName") THEN a.tableName ELSE "")
              THEN Fails("ItemNotFound")
              ELSE IF Protected THEN Fails("AccessDenied")
              ELSE Done([With(Cleared(Sheet, TableNamed(a.tableName)))
                            EXCEPT !.tables = SelectSeq(@, LAMBDA t :
                                                  ~SameName(t.name, a.tableName))],
                        bk, StrResult("Table '" \o a.tableName \o "' deleted"))
         \* range.load("formulas"); formula = range.formulas[0][0]
         [] tool = "get_formula" ->
              IF ~Target.ok THEN Fails("InvalidArgument")
              ELSE IF Unbounded(Target)
              THEN {Goes(Here, bk, Rejected("Cannot read properties of null (reading '0')"))}
              ELSE Same(ValResult(Prop(Sheet, bk.formats, Target.c1, Target.r1, "formulas")))
         \* range.formulas = [[formula]]: one formula, for a range of one cell
         [] tool = "set_formula" ->
              IF ~OneCell(Target) \/ ~Has("formula") THEN Fails("InvalidArgument")
              ELSE IF Protected THEN Fails("AccessDenied")
              ELSE Done(With(Put(Sheet, Target.c1, Target.r1, HostCoerce(Str(a.formula)))), bk,
                        StrResult("Formula set"))
         \* range.sort.apply([{key: columnIndex, ascending}]): the rows of the range
         [] tool = "sort_range" ->
              IF ~Target.ok \/ ~Has("columnIndex") THEN Fails("InvalidArgument")
              ELSE IF a.columnIndex < 0 \/ Target.c1 + a.columnIndex > Target.c2
              THEN Fails("InvalidArgument")
              ELSE IF Protected THEN Fails("AccessDenied")
              ELSE Done([With(Sorted(Sheet)) EXCEPT !.formats = SortedFormats(@)], bk,
                        StrResult("Range sorted"))
         \* range.find(...) is an object even when nothing is found: the sync
         \* rejects then, and results is never returned empty
         [] tool = "find_in_range" ->
              IF ~Target.ok \/ ~Has("searchText") THEN Fails("InvalidArgument")
              ELSE IF a.searchText = "" THEN Fails("InvalidArgument")
              ELSE Answer(Found)
         \* range.replaceAll(...), where the library hands out the count at once
         [] tool = "replace_in_range" ->
              IF ~Target.ok \/ ~Has("searchText") \/ ~Has("replaceText")
              THEN Fails("InvalidArgument")
              ELSE IF a.searchText = "" THEN Fails("InvalidArgument")
              ELSE Replaces(Hits)
         \* context.workbook.names.add(name, range): the host rejects a name that
         \* exists, or gives it the new range
         [] tool = "create_named_range" ->
              IF ~Target.ok \/ ~Has("name") THEN Fails("InvalidArgument")
              ELSE IF ~ValidName(a.name) THEN Fails("InvalidArgument")
              ELSE LET item == [name |-> a.name, sheet |-> bk.active, ok |-> TRUE,
                                c1 |-> Target.c1, r1 |-> Target.r1,
                                c2 |-> Target.c2, r2 |-> Target.r2]
                       o == StrResult("Named range '" \o a.name \o "' created")
                   IN IF NameExists(a.name)
                      THEN Fails("ItemAlreadyExists")
                             \cup Done(Here,
                                       [bk EXCEPT !.names =
                                           [i \in DOMAIN @ |->
                                               IF SameName(@[i].name, a.name) THEN item
                                               ELSE @[i]]], o)
                      ELSE Done(Here, [bk EXCEPT !.names = Append(@, item)], o)
         \* names.getItem(name).getRange(): on the sheet of the name
         [] tool = "get_named_range" ->
              IF ~Has("name") \/ ~NameExists(IF Has("name") THEN a.name ELSE "")
              THEN Fails("ItemNotFound")
              ELSE IF ~NameOf(a.name).ok THEN Fails("InvalidReference")
              ELSE IF Unbounded(NameOf(a.name)) THEN Same(NullResult)
              ELSE LET s == SheetOf(NameOf(a.name).sheet)
                   IN Same(GridResult(Grid(Filled(s.cells, s.far), s.formats, NameOf(a.name),
                                           "values")))
         [] tool = "list_named_ranges" ->
              Same(ArrResult([i \in DOMAIN bk.names |-> bk.names[i].name]))
         \* sheet.protection.protect(options, password)
         [] tool = "protect_sheet" ->
              IF Protected THEN Fails("InvalidOperation")
              ELSE Done([Here EXCEPT !.protection =
                                        [protected |-> TRUE,
                                         password |-> IF Has("password") THEN a.password
                                                      ELSE ""]],
                        bk, StrResult("Sheet protected"))
         [] tool = "unprotect_sheet" ->
              IF /\ Protected /\ bk.protection.password # ""
                 /\ (~Has("password") \/ bk.protection.password # (IF Has("password")
                                                                  THEN a.password ELSE ""))
              THEN Fails("BadPassword")
              ELSE Done([Here EXCEPT !.protection = [protected |-> FALSE, password |-> ""]],
                        bk, StrResult("Sheet unprotected"))
         [] tool = "get_used_range" -> Same(StrResult(Address(UsedBox)))
         \* return { address, values }
         [] tool = "get_selection" ->
              Same(Selected(Box(bk.selection)))
         \* the values of formulas are computed when they are read
         [] tool = "calculate" -> Same(StrResult("Workbook recalculated")))


-----------------------------------------------------------------------------
(* Frames. *)

\* payload.tools_used of a chat_response: a list of tool names, or absent.
NoTools == [defined |-> FALSE, items |-> << >>]
ToolsUsed(names) == [defined |-> TRUE, items |-> names]

\* json: event.data is JSON text; payload: the message has a payload.
NoFrameFields ==
    [json |-> TRUE, payload |-> TRUE, event |-> "", reply |-> "", tools_used |-> NoTools,
     text |-> "", tool_name |-> "", request_id |-> "", args |-> NoArgs]
ChatResponse(reply) == [NoFrameFields EXCEPT !.event = "chat_response", !.reply = reply]
ChatResponseWith(reply, names) ==
    [ChatResponse(reply) EXCEPT !.tools_used = ToolsUsed(names)]
Status(text) == [NoFrameFields EXCEPT !.event = "status", !.text = text]
ToolRequest(name, rid, a) ==
    [NoFrameFields EXCEPT !.event = "tool_request", !.tool_name = name,
                          !.request_id = rid, !.args = a]
OtherEvent(tag) == [NoFrameFields EXCEPT !.event = tag]

\* event.data that JSON.parse rejects.
NotJSON == [NoFrameFields EXCEPT !.json = FALSE]

\* {"event": tag} with no payload member.
WithoutPayload(tag) == [NoFrameFields EXCEPT !.event = tag, !.payload = FALSE]

HelloMap == ObjCells(<< <<"A1", Str("Hello")>> >>)

\* The calls the orchestrator makes in this model: writes the host accepts and
\* rejects, writes answered before the host is reached, a read, an operation
\* the switch names and the imported ExcelTools lacks, and a name the switch
\* does not have.
ToolCalls ==
    { <<"modify_cells", CellsArgs(HelloMap)>>,
      <<"modify_cells", CellsArgs(ObjCells(<< <<"B1", Str("5")>>, <<"A0", Str("Hello")>> >>))>>,
      <<"modify_cells", CellsArgs(ObjCells(<< >>))>>,
      <<"modify_cells", CellsArgs(NoCells)>>,
      <<"read_cells_values", CellsArgs(ArrCells(<<"A1">>))>>,
      <<"create_chart", ChartArgs("A1:B2")>>,
      <<"write_cells", CellsArgs(HelloMap)>> }

\* Every call is made under "r1", the write that the host accepts under "r2".
Frames ==
    {ChatResponse("ok"), OtherEvent("ping")}
        \cup {ToolRequest(c[1], IF c[2] = CellsArgs(HelloMap) /\ c[1] = "modify_cells"
                                  THEN "r2" ELSE "r1", c[2]) : c \in ToolCalls}

\* Outbound frames. cause and socket are history: the arrival that the frame
\* answers, and the App instance whose socket the frame was put on.
ToolResult(rid, result, cause) ==
    [event |-> "tool_result", request_id |-> rid, result |-> result, text |-> "",
     cause |-> cause, socket |-> 0]

\* { event: "chat", payload: { text } }
Chat(text) ==
    [event |-> "chat", request_id |-> "", result |-> NullResult, text |-> text, cause |-> 0,
     socket |-> 0]

\* The frame as it is on the socket of instance m.
OnSocket(m, frame) == [frame EXCEPT !.socket = m]

\* Conversation entries. The source's emoji prefixes are written in ASCII.
\* cause is history: the arrival that the entry was appended for (0: none).
Entry(sender, text) == [sender |-> sender, text |-> text, tools_used |-> << >>, cause |-> 0]
BotEntry(text, cause) == [Entry("bot", text) EXCEPT !.cause = cause]
Greeting == Entry("bot", "Hello! Ready to control Excel via MCP.")
ConnectionLost == Entry("bot", "(!) Connection lost.")
StatusPrefix == "(gear) "

-----------------------------------------------------------------------------
(* handleServerMessage. *)

\* Mutant: no readiness gate.
DropsNothing(ready, msg) == FALSE

\* The readiness gate: the handler returns before anything else.
DropsFrame(ready, msg) == ~ready /\ msg.event = "tool_request"

\* Mutant: the reply is stored without its tools_used.
LogAfterTextOnly(log, msg, seq) ==
    IF msg.event = "chat_response" THEN Append(log, BotEntry(msg.reply, seq))
    ELSE IF msg.event = "status" THEN Append(log, BotEntry(StatusPrefix \o msg.text, seq))
    ELSE log

\* var { reply, tools_used = [] } = msg.payload
ReplyEntry(msg, seq) ==
    [BotEntry(msg.reply, seq) EXCEPT
        !.tools_used = IF msg.tools_used.defined THEN msg.tools_used.items ELSE << >>]

\* Mutant: a frame with an unknown event is shown in the conversation.
LogAfterEcho(log, msg, seq) ==
    IF msg.event = "chat_response" THEN Append(log, BotEntry(msg.reply, seq))
    ELSE IF msg.event = "status" THEN Append(log, BotEntry(StatusPrefix \o msg.text, seq))
    ELSE IF msg.event = "tool_request" THEN log
    ELSE Append(log, BotEntry(msg.event, seq))

\* Mutant: a status is shown above the conversation.
LogAfterStatusFirst(log, msg, seq) ==
    IF msg.event = "chat_response" THEN Append(log, BotEntry(msg.reply, seq))
    ELSE IF msg.event = "status" THEN <<BotEntry(StatusPrefix \o msg.text, seq)>> \o log
    ELSE log

\* The conversation after the frame msg (arrival seq) was handled: a
\* chat_response appends its reply, a status its text; nothing else appends.
LogAfter(log, msg, seq) ==
    IF msg.event = "chat_response" THEN Append(log, ReplyEntry(msg, seq))
    ELSE IF msg.event = "status" THEN Append(log, BotEntry(StatusPrefix \o msg.text, seq))
    ELSE log

\* msg.text.includes("sorry") on the texts of the model.
IncludesSorry(text) == text \in {"I am sorry"}

RECURSIVE Rendered(_)
\* messages.map(...): the entries that are drawn; one whose text includes
\* "sorry" is mapped to null.
Rendered(log) ==
    IF log = << >> THEN << >>
    ELSE IF IncludesSorry(Head(log).text) THEN Rendered(Tail(log))
    ELSE <<Head(log)>> \o Rendered(Tail(log))

\* The names of the switch.
SwitchNames ==
    {"modify_cells", "read_subtable", "read_cells_text", "read_cells_values",
     "extend", "create_chart", "delete_all_charts"}

\* The property of args that each case reads first ("": the case reads none).
FirstArg(name) ==
    CASE name \in {"modify_cells", "read_cells_text", "read_cells_values"} -> "cells"
      [] name = "read_subtable" -> "col1"
      [] name = "extend" -> "source"
      [] OTHER -> ""

\* The operations of the ExcelTools object in the file at the path of the
\* App's import, "../../utils/excelTools".
ImportedTools ==
    {"modify_cells", "read_subtable", "read_cells_text", "read_cells_values", "extend"}

\* Mutant: the default case does not set the result.
SwitchWithoutDefault(name, a) ==
    IF name \notin SwitchNames THEN Returns(NullResult)
    ELSE IF name \notin ImportedTools
         THEN Throws("ExcelTools." \o name \o " is not a function")
    ELSE IF ~a.defined /\ FirstArg(name) # ""
         THEN Throws("Cannot read properties of undefined (reading '"
                        \o FirstArg(name) \o "')")
    ELSE Invoke(name, a)

\* Operations that the long ExcelTools file defines and the switch has no case for.
UnlistedTools == {"read_range", "clear_range", "set_formula", "create_sheet"}

\* Mutant: a name without a case is looked up in ExcelTools and called.
SwitchByLookup(name, a) ==
    IF name \in UnlistedTools THEN Returns(StrResult("Success"))
    ELSE IF name \notin SwitchNames THEN Returns(StrResult("Error: Unknown tool name"))
    ELSE IF name \notin ImportedTools
         THEN Throws("ExcelTools." \o name \o " is not a function")
    ELSE IF ~a.defined /\ FirstArg(name) # ""
         THEN Throws("Cannot read properties of undefined (reading '"
                        \o FirstArg(name) \o "')")
    ELSE Invoke(name, a)

\* The switch: what the case of tool_name does before its first await, when
\* the imported ExcelTools object has the operations of registry. The case
\* reads its property of args first, then the operation of the object; calling
\* a property the object lacks throws TypeError inside the try block.
SwitchOn(registry, name, a) ==
    IF name \notin SwitchNames THEN Returns(StrResult("Error: Unknown tool name"))
    ELSE IF ~a.defined /\ FirstArg(name) # ""
         THEN Throws("Cannot read properties of undefined (reading '"
                        \o FirstArg(name) \o "')")
    ELSE IF name \notin registry
         THEN Throws("ExcelTools." \o name \o " is not a function")
    ELSE Invoke(name, a)

\* The switch of the App, whose import resolves to the file with ImportedTools.
Switch(name, a) == SwitchOn(ImportedTools, name, a)

\* Mutant: the catch block sends the bare message.
ResultOfBareMessage(outcome) ==
    IF outcome.status = "fulfilled" THEN outcome.result ELSE StrResult(outcome.message)

\* payload.result of the tool_result: the value, or the caught error's message.
ResultOf(outcome) ==
    IF outcome.status = "fulfilled" THEN outcome.result
    ELSE StrResult("Error: " \o outcome.message)

\* The request_id of the tool_request that arrived last.
LatestRequestId ==
    LET reqs == {a \in arrivals : a.event = "tool_request"}
    IN IF reqs = {} THEN ""
       ELSE (CHOOSE a \in reqs : \A b \in reqs : b.seq <= a.seq).request_id

\* Mutant: request_id is one variable shared by the handlers.
ResultFrameSharedId(rid, outcome, cause) ==
    ToolResult(LatestRequestId, ResultOf(outcome), cause)

\* The frame for request rid (arrival cause) whose operation ended with outcome.
ResultFrame(rid, outcome, cause) == ToolResult(rid, ResultOf(outcome), cause)

\* The call whose sync the host processed last, and whether the host accepted it.
\* sync is the number of the sync within its call, last whether it ended the call.
\* solo: no sync of another call was processed between the syncs of the call.
\* open: the socket of the App whose handler made the call was open then.
NoCommit ==
    [seq |-> 0, tool |-> "", args |-> NoArgs, ok |-> FALSE, sync |-> 0, last |-> FALSE,
     solo |-> FALSE, open |-> FALSE]
NoReturn ==
    [seq |-> 0, tool |-> "", args |-> NoArgs, outcome |-> Pending, prev |-> NoCommit,
     runs |-> 0, syncs |-> 0, solo |-> FALSE]

\* prev is history: the sync the host processed last before the first sync of
\* this call; solo: no sync of another call was processed between the syncs of
\* this call. loaded: the items of sheet.charts after charts.load("items").
\* mount is the App instance whose handler made the call (0: a direct call).
NewTask(seq, m, rid, name, a) ==
    [seq |-> seq, mount |-> m, request_id |-> rid, tool |-> name, args |-> a,
     pc |-> "acquiring", syncs |-> 0, outcome |-> Pending, prev |-> NoCommit,
     solo |-> TRUE, loaded |-> {}]

-----------------------------------------------------------------------------
(* The state machine. *)

InitialCells == [c \in Cells |-> IF c = "B1" THEN Num("7") ELSE EmptyCell]

\* What a render of the current instance shows.
Screen(ready, connected) == [ready |-> ready, connected |-> connected]

\* createRoot, and the root.render(<App false />) that follows it: the
\* component types are numbered, 0 for the App that index.tsx imports first.
InitialRoot == [type |-> 0, element |-> 0, queued |-> TRUE, effects |-> FALSE]

\* React commits the latest root.render.
Committed == [root EXCEPT !.type = root.element, !.queued = FALSE]

\* A commit that mounts or removes an App leaves passive effects to run.
CommittedWithEffects == [Committed EXCEPT !.effects = TRUE]

\* No App has been removed from the root.
NoPrior == [mount |-> 0, readyState |-> "NONE", handlerReady |-> FALSE, cleanup |-> FALSE]

Init ==
    /\ isOfficeInitialized = FALSE
    /\ onReady = FALSE
    /\ root = InitialRoot
    /\ mounts = 0
    /\ prior = NoPrior
    /\ sockets = 0
    /\ handlerReady = FALSE
    /\ readyState = "NONE"
    /\ isConnected = FALSE
    /\ drawn = Screen(FALSE, FALSE)
    /\ pendingError = FALSE
    /\ loading = FALSE
    /\ prompt = ""
    /\ messages = << >>
    /\ arrivals = {}
    /\ sent = << >>
    /\ tasks = {}
    /\ cells = InitialCells
    /\ charts = InitialCharts
    /\ book = InitialBook
    /\ hostRuns = 0
    /\ hostSyncs = 0
    /\ lastCommit = NoCommit
    /\ returned = NoReturn
    /\ inputs = 0

\* The root has no App: an error thrown while rendering was caught by no
\* error boundary and React removed the tree.
Unmounted == mounts >= 1 /\ messages = << >>

\* The instances whose socket can still dispatch an event to a handler of the
\* App: the one the root holds and the one it held before.
Instances == {m \in {prior.mount, mounts} : m >= 1}

\* Instance m is the App that the root holds.
IsMounted(m) == m = mounts /\ m # prior.mount

\* readyState of the socket of instance m, for m in Instances.
SockState(m) == IF m = prior.mount THEN prior.readyState ELSE readyState

\* ws.current && ws.current.readyState === WebSocket.OPEN, in a handler of
\* instance m. The socket of an instance removed earlier than prior was closed
\* by its cleanup.
SocketIsOpen(m) == m \in Instances /\ SockState(m) = "OPEN"

\* isOfficeInitialized as the handleServerMessage of instance m sees it.
Gate(m) == IF m = prior.mount THEN prior.handlerReady ELSE handlerReady

\* Mutant: one socket shared by all instances in place of the instance's ref.
SendIfAnyOpen(m, frame) ==
    IF readyState = "OPEN" THEN Append(sent, OnSocket(mounts, frame)) ELSE sent

\* if (ws.current && ws.current.readyState === WebSocket.OPEN) ws.current.send(...)
\* by a handler of instance m.
SendIfOpen(m, frame) ==
    IF SocketIsOpen(m) THEN Append(sent, OnSocket(m, frame)) ELSE sent

\* History of a frame delivered to the onmessage of instance m. ready: the prop
\* of the latest root.render; gate: the prop as the handler sees it; mounted:
\* the root holds the instance; busy: the handlers of the instance that were
\* suspended when the frame arrived.
Arrival(seq, m, msg, admitted) ==
    [seq |-> seq, mount |-> m, event |-> msg.event, request_id |-> msg.request_id,
     tool_name |-> msg.tool_name, args |-> msg.args, ready |-> isOfficeInitialized,
     gate |-> Gate(m), mounted |-> IsMounted(m), admitted |-> admitted,
     busy |-> Cardinality({t \in tasks : t.mount = m}), frame |-> msg]

\* The first render of a new App instance is committed: its state hooks hold
\* their initial values and it has no socket yet.
NewInstance(ready) ==
    /\ mounts' = mounts + 1
    /\ handlerReady' = FALSE
    /\ readyState' = "NONE"
    /\ isConnected' = FALSE
    /\ drawn' = Screen(ready, FALSE)
    /\ pendingError' = FALSE
    /\ loading' = FALSE
    /\ prompt' = ""
    /\ messages' = <<Greeting>>

\* The instance that a commit removes from the root: its socket and its
\* handlers stay as they are until its cleanup runs.
Removed ==
    [mount |-> mounts, readyState |-> readyState, handlerReady |-> handlerReady,
     cleanup |-> TRUE]

\* React commits for the first time: the App of the latest root.render is
\* mounted, with the prop of that call.
Mount ==
    /\ mounts = 0
    /\ NewInstance(isOfficeInitialized)
    /\ root' = CommittedWithEffects
    /\ UNCHANGED <<isOfficeInitialized, onReady, prior, sockets, arrivals, sent, tasks,
                   hostVars, returned, inputs>>

\* return () => { socket.close(); }
Cleanup(p) ==
    [p EXCEPT !.cleanup = FALSE,
              !.readyState = IF @ \in {"CONNECTING", "OPEN"} THEN "CLOSING" ELSE @]

\* Mutant: the effect opens the socket only when Office is ready.
EffectsWhenReady ==
    /\ root.effects
    /\ root' = [root EXCEPT !.effects = FALSE]
    /\ prior' = IF prior.cleanup THEN Cleanup(prior) ELSE prior
    /\ IF ~Unmounted /\ readyState = "NONE" /\ drawn.ready
       THEN /\ readyState' = "CONNECTING"
            /\ handlerReady' = drawn.ready
            /\ sockets' = sockets + 1
       ELSE UNCHANGED <<readyState, handlerReady, sockets>>
    /\ UNCHANGED <<isOfficeInitialized, onReady, mounts, isConnected, drawn, pendingError,
                   loading, prompt, messages, arrivals, sent, tasks, hostVars, returned,
                   inputs>>

\* The passive effects of the last commit run, in a task after the commit: the
\* cleanup of the App that was removed, then the effect of the App that was
\* mounted, which opens the socket and installs the handlers of the committed
\* render.
Effects ==
    /\ root.effects
    /\ root' = [root EXCEPT !.effects = FALSE]
    /\ prior' = IF prior.cleanup THEN Cleanup(prior) ELSE prior
    /\ IF ~Unmounted /\ readyState = "NONE"
       THEN /\ readyState' = "CONNECTING"
            /\ handlerReady' = drawn.ready
            /\ sockets' = sockets + 1
       ELSE UNCHANGED <<readyState, handlerReady, sockets>>
    /\ UNCHANGED <<isOfficeInitialized, onReady, mounts, isConnected, drawn, pendingError,
                   loading, prompt, messages, arrivals, sent, tasks, hostVars, returned,
                   inputs>>

\* Office.onReady, whose callback runs once: root.render(<App true />), which
\* returns before React renders. After a hot reload the App of index.tsx is
\* the reloaded component where the import is a live binding, and the
\* component imported first where it is not.
OfficeReady ==
    /\ ~onReady
    /\ onReady' = TRUE
    /\ isOfficeInitialized' = TRUE
    /\ \E app \in {0, root.element} : root' = [root EXCEPT !.element = app, !.queued = TRUE]
    /\ UNCHANGED <<mounts, prior, sockets, handlerReady, readyState, isConnected, drawn,
                   pendingError, loading, prompt, messages, arrivals, sent, tasks, hostVars,
                   returned, inputs>>

\* module.hot.accept: root.render(<NextApp true />) with the component of the
\* module loaded anew, which returns before React renders.
HotReloadWithin(bound) ==
    /\ inputs < bound
    /\ inputs' = inputs + 1
    /\ isOfficeInitialized' = TRUE
    /\ root' = [root EXCEPT !.element = Max(root.type, root.element) + 1, !.queued = TRUE]
    /\ UNCHANGED <<onReady, mounts, prior, sockets, handlerReady, readyState, isConnected,
                   drawn, pendingError, loading, prompt, messages, arrivals, sent, tasks,
                   hostVars, returned>>

HotReload == HotReloadWithin(MaxInputs)

\* socket.onopen of instance m. setIsConnected queues the update; the screen
\* follows at the next render. The state setters of an App that the root holds
\* no more change nothing.
SocketOpen(m) ==
    /\ SockState(m) = "CONNECTING"
    /\ IF IsMounted(m)
       THEN /\ readyState' = "OPEN"
            /\ isConnected' = TRUE
            /\ prior' = prior
       ELSE /\ prior' = [prior EXCEPT !.readyState = "OPEN"]
            /\ UNCHANGED <<readyState, isConnected>>
    /\ UNCHANGED <<isOfficeInitialized, onReady, root, mounts, sockets, handlerReady, drawn,
                   pendingError, loading, prompt, messages, arrivals, sent, tasks, hostVars,
                   returned, inputs>>

\* The closing handshake of the socket of instance m starts (the server sent a
\* Close frame): readyState is CLOSING until the close event is dispatched; no
\* handler of the App runs.
SocketClosing(m) ==
    /\ SockState(m) = "OPEN"
    /\ IF IsMounted(m)
       THEN readyState' = "CLOSING" /\ prior' = prior
       ELSE prior' = [prior EXCEPT !.readyState = "CLOSING"] /\ readyState' = readyState
    /\ UNCHANGED <<isOfficeInitialized, onReady, root, mounts, sockets, handlerReady,
                   isConnected, drawn, pendingError, loading, prompt, messages, arrivals,
                   sent, tasks, hostVars, returned, inputs>>

\* Mutant: onclose leaves isConnected as it is.
SocketCloseStaysConnected(m) ==
    /\ SockState(m) \in {"CONNECTING", "OPEN", "CLOSING"}
    /\ IF IsMounted(m)
       THEN /\ readyState' = "CLOSED"
            /\ loading' = FALSE
            /\ messages' = Append(messages, ConnectionLost)
            /\ prior' = prior
       ELSE /\ prior' = [prior EXCEPT !.readyState = "CLOSED"]
            /\ UNCHANGED <<readyState, loading, messages>>
    /\ UNCHANGED <<isOfficeInitialized, onReady, root, mounts, sockets, handlerReady,
                   isConnected, drawn, pendingError, prompt, arrivals, sent, tasks, hostVars,
                   returned, inputs>>

\* Mutant: onclose opens a new connection.
SocketCloseAndRetry(m) ==
    /\ SockState(m) \in {"CONNECTING", "OPEN", "CLOSING"}
    /\ sockets' = sockets + 1
    /\ IF IsMounted(m)
       THEN /\ readyState' = "CONNECTING"
            /\ isConnected' = FALSE
            /\ loading' = FALSE
            /\ messages' = Append(messages, ConnectionLost)
            /\ drawn' = Screen(drawn.ready, FALSE)
            /\ prior' = prior
       ELSE /\ prior' = [prior EXCEPT !.readyState = "CONNECTING"]
            /\ UNCHANGED <<readyState, isConnected, loading, messages, drawn>>
    /\ UNCHANGED <<isOfficeInitialized, onReady, root, mounts, handlerReady, pendingError,
                   prompt, arrivals, sent, tasks, hostVars, returned, inputs>>

\* Mutant: onclose appends no notice.
SocketCloseSilent(m) ==
    /\ SockState(m) \in {"CONNECTING", "OPEN", "CLOSING"}
    /\ IF IsMounted(m)
       THEN /\ readyState' = "CLOSED"
            /\ isConnected' = FALSE
            /\ loading' = FALSE
            /\ drawn' = Screen(drawn.ready, FALSE)
            /\ prior' = prior
       ELSE /\ prior' = [prior EXCEPT !.readyState = "CLOSED"]
            /\ UNCHANGED <<readyState, isConnected, loading, drawn>>
    /\ UNCHANGED <<isOfficeInitialized, onReady, root, mounts, sockets, handlerReady,
                   pendingError, prompt, messages, arrivals, sent, tasks, hostVars, returned,
                   inputs>>

\* Mutant: closing cancels the operations in flight.
SocketCloseCancels(m) ==
    /\ SockState(m) \in {"CONNECTING", "OPEN", "CLOSING"}
    /\ tasks' = {t \in tasks : t.mount # m}
    /\ IF IsMounted(m)
       THEN /\ readyState' = "CLOSED"
            /\ isConnected' = FALSE
            /\ loading' = FALSE
            /\ messages' = Append(messages, ConnectionLost)
            /\ drawn' = Screen(drawn.ready, FALSE)
            /\ prior' = prior
       ELSE /\ prior' = [prior EXCEPT !.readyState = "CLOSED"]
            /\ UNCHANGED <<readyState, isConnected, loading, messages, drawn>>
    /\ UNCHANGED <<isOfficeInitialized, onReady, root, mounts, sockets, handlerReady,
                   pendingError, prompt, arrivals, sent, hostVars, returned, inputs>>

\* socket.onclose of instance m: the connection failed, was lost or was closed.
\* "close" is a discrete event to React, so the three updates of the handler
\* are rendered before the task of the event ends: the screen shows the text
\* field and the Send button disabled. That render takes the updates of the
\* handler only; a root.render or an update of an earlier message event that
\* is still queued waits for the next render. The state setters of an App that
\* the root holds no more change nothing.
SocketClose(m) ==
    /\ SockState(m) \in {"CONNECTING", "OPEN", "CLOSING"}
    /\ IF IsMounted(m)
       THEN /\ readyState' = "CLOSED"
            /\ isConnected' = FALSE
            /\ loading' = FALSE
            /\ messages' = Append(messages, ConnectionLost)
            /\ drawn' = Screen(drawn.ready, FALSE)
            /\ prior' = prior
       ELSE /\ prior' = [prior EXCEPT !.readyState = "CLOSED"]
            /\ UNCHANGED <<readyState, isConnected, loading, messages, drawn>>
    /\ UNCHANGED <<isOfficeInitialized, onReady, root, mounts, sockets, handlerReady,
                   pendingError, prompt, arrivals, sent, tasks, hostVars, returned, inputs>>

\* Mutant: setLoading(false) runs before the readiness gate.
HandleFrameClearsFirst(m, msg, seq) ==
    /\ LET dropped == DropsFrame(Gate(m), msg)
           effect == Switch(msg.tool_name, msg.args)
           isTool == msg.event = "tool_request"
       IN /\ arrivals' = arrivals \cup {Arrival(seq, m, msg, isTool /\ ~dropped)}
          /\ loading' = IF IsMounted(m) THEN FALSE ELSE loading
          /\ messages' = IF IsMounted(m) THEN LogAfter(messages, msg, seq) ELSE messages
          /\ IF isTool /\ ~dropped /\ effect.kind = "run"
             THEN /\ tasks' = tasks \cup {NewTask(seq, m, msg.request_id, msg.tool_name, msg.args)}
                  /\ hostRuns' = hostRuns + 1
                  /\ sent' = sent
             ELSE /\ tasks' = tasks
                  /\ hostRuns' = hostRuns
                  /\ sent' = IF isTool /\ ~dropped
                             THEN SendIfOpen(m, ResultFrame(msg.request_id, effect.outcome, seq))
                             ELSE sent
    /\ UNCHANGED <<isOfficeInitialized, onReady, root, mounts, prior, sockets, handlerReady,
                   readyState, isConnected, drawn, pendingError, prompt, cells, charts, book,
                   hostSyncs, lastCommit, returned>>

\* Mutant: a frame that arrives while a handler of the instance is suspended
\* is put aside.
HandleFrameWhenIdle(m, msg, seq) ==
    /\ LET dropped == DropsFrame(Gate(m), msg)
           effect == Switch(msg.tool_name, msg.args)
           isTool == msg.event = "tool_request"
           idle == \A t \in tasks : t.mount # m
       IN /\ arrivals' = arrivals \cup {Arrival(seq, m, msg, isTool /\ ~dropped)}
          /\ loading' = IF dropped \/ ~IsMounted(m) \/ ~idle THEN loading ELSE FALSE
          /\ messages' = IF IsMounted(m) /\ idle THEN LogAfter(messages, msg, seq) ELSE messages
          /\ IF idle /\ isTool /\ ~dropped /\ effect.kind = "run"
             THEN /\ tasks' = tasks \cup {NewTask(seq, m, msg.request_id, msg.tool_name, msg.args)}
                  /\ hostRuns' = hostRuns + 1
                  /\ sent' = sent
             ELSE /\ tasks' = tasks
                  /\ hostRuns' = hostRuns
                  /\ sent' = IF idle /\ isTool /\ ~dropped
                             THEN SendIfOpen(m, ResultFrame(msg.request_id, effect.outcome, seq))
                             ELSE sent
    /\ UNCHANGED <<isOfficeInitialized, onReady, root, mounts, prior, sockets, handlerReady,
                   readyState, isConnected, drawn, pendingError, prompt, cells, charts, book,
                   hostSyncs, lastCommit, returned>>

\* Mutant: a tool_request whose request_id was seen before is not executed.
HandleFrameOncePerId(m, msg, seq) ==
    /\ LET dropped == DropsFrame(Gate(m), msg)
           effect == Switch(msg.tool_name, msg.args)
           isTool == msg.event = "tool_request"
           fresh == \A a \in arrivals :
                        a.event = "tool_request" => a.request_id # msg.request_id
       IN /\ arrivals' = arrivals \cup {Arrival(seq, m, msg, isTool /\ ~dropped)}
          /\ loading' = IF dropped \/ ~IsMounted(m) THEN loading ELSE FALSE
          /\ messages' = IF IsMounted(m) THEN LogAfter(messages, msg, seq) ELSE messages
          /\ IF fresh /\ isTool /\ ~dropped /\ effect.kind = "run"
             THEN /\ tasks' = tasks \cup {NewTask(seq, m, msg.request_id, msg.tool_name, msg.args)}
                  /\ hostRuns' = hostRuns + 1
                  /\ sent' = sent
             ELSE /\ tasks' = tasks
                  /\ hostRuns' = hostRuns
                  /\ sent' = IF fresh /\ isTool /\ ~dropped
                             THEN SendIfOpen(m, ResultFrame(msg.request_id, effect.outcome, seq))
                             ELSE sent
    /\ UNCHANGED <<isOfficeInitialized, onReady, root, mounts, prior, sockets, handlerReady,
                   readyState, isConnected, drawn, pendingError, prompt, cells, charts, book,
                   hostSyncs, lastCommit, returned>>

\* handleServerMessage of instance m on a frame that has what its branch
\* reads, up to the first await. The state setters of an App that the root
\* holds no more change nothing; the rest of the handler runs as it does in a
\* mounted App.
HandleFrame(m, msg, seq) ==
    /\ LET dropped == DropsFrame(Gate(m), msg)
           effect == Switch(msg.tool_name, msg.args)
           isTool == msg.event = "tool_request"
       IN /\ arrivals' = arrivals \cup {Arrival(seq, m, msg, isTool /\ ~dropped)}
          /\ loading' = IF dropped \/ ~IsMounted(m) THEN loading ELSE FALSE
          /\ messages' = IF IsMounted(m) THEN LogAfter(messages, msg, seq) ELSE messages
          /\ IF isTool /\ ~dropped /\ effect.kind = "run"
             THEN /\ tasks' = tasks \cup {NewTask(seq, m, msg.request_id, msg.tool_name, msg.args)}
                  /\ hostRuns' = hostRuns + 1
                  /\ sent' = sent
             ELSE /\ tasks' = tasks
                  /\ hostRuns' = hostRuns
                  /\ sent' = IF isTool /\ ~dropped
                             THEN SendIfOpen(m, ResultFrame(msg.request_id, effect.outcome, seq))
                             ELSE sent
    /\ UNCHANGED <<isOfficeInitialized, onReady, root, mounts, prior, sockets, handlerReady,
                   readyState, isConnected, drawn, pendingError, prompt, cells, charts, book,
                   hostSyncs, lastCommit, returned>>

\* The frame's branch reads msg.payload, which the frame does not have.
LacksPayload(msg) ==
    ~msg.payload /\ msg.event \in {"chat_response", "status", "tool_request"}

\* JSON.parse(event.data) throws inside onmessage: no handler runs.
ParseFails(m, msg, seq) ==
    /\ arrivals' = arrivals \cup {Arrival(seq, m, msg, FALSE)}
    /\ UNCHANGED <<isOfficeInitialized, onReady, root, mounts, prior, sockets, handlerReady,
                   readyState, isConnected, drawn, pendingError, loading, prompt, messages,
                   sent, tasks, hostRuns, cells, charts, book, hostSyncs, lastCommit,
                   returned>>

\* A chat_response or tool_request without payload: the destructuring of
\* msg.payload throws outside the try block and the handler's promise is
\* rejected; only setLoading(false) has run.
HandlerRejects(m, msg, seq) ==
    LET dropped == DropsFrame(Gate(m), msg)
    IN /\ arrivals' = arrivals \cup {Arrival(seq, m, msg, msg.event = "tool_request" /\ ~dropped)}
       /\ loading' = IF dropped \/ ~IsMounted(m) THEN loading ELSE FALSE
       /\ UNCHANGED <<isOfficeInitialized, onReady, root, mounts, prior, sockets,
                      handlerReady, readyState, isConnected, drawn, pendingError, prompt,
                      messages, sent, tasks, hostRuns, cells, charts, book, hostSyncs,
                      lastCommit, returned>>

\* A status without payload: the handler queues setLoading(false) and an
\* updater of messages that reads msg.payload.text. The updater runs when React
\* renders, not in the handler, which returns normally; React renders no App
\* that the root holds no more.
QueuesThrowingUpdate(m, msg, seq) ==
    /\ arrivals' = arrivals \cup {Arrival(seq, m, msg, FALSE)}
    /\ loading' = IF IsMounted(m) THEN FALSE ELSE loading
    /\ pendingError' = IF IsMounted(m) THEN TRUE ELSE pendingError
    /\ UNCHANGED <<isOfficeInitialized, onReady, root, mounts, prior, sockets, handlerReady,
                   readyState, isConnected, drawn, prompt, messages, sent, tasks, hostRuns,
                   cells, charts, book, hostSyncs, lastCommit, returned>>

\* The render runs the queued updater, which throws. No error boundary catches
\* the error: React removes the tree, and the state of the App goes with it.
\* The socket stays as it is until the cleanup runs.
RenderThrows ==
    /\ prior' = Removed
    /\ messages' = << >>
    /\ handlerReady' = FALSE
    /\ readyState' = "NONE"
    /\ isConnected' = FALSE
    /\ drawn' = Screen(FALSE, FALSE)
    /\ pendingError' = FALSE
    /\ loading' = FALSE
    /\ prompt' = ""

\* The latest root.render has a component of another type than the App that
\* the root holds, or the root holds none.
Remounts == root.queued /\ (Unmounted \/ root.element # root.type)

\* React renders what earlier tasks queued, the latest root.render and the
\* updates of the handlers, and commits; it runs the passive effects that are
\* pending before it renders. An App of another type is removed without being
\* rendered and the new one is mounted; an App of the same type is rendered
\* again, and its socket and the handlers installed by its effect stay.
Render ==
    /\ mounts >= 1
    /\ ~root.effects
    /\ IF Remounts
       THEN /\ NewInstance(isOfficeInitialized)
            /\ prior' = IF Unmounted THEN prior ELSE Removed
            /\ root' = CommittedWithEffects
       ELSE /\ ~Unmounted
            /\ root.queued \/ pendingError \/ drawn # Screen(isOfficeInitialized, isConnected)
            /\ IF pendingError
               THEN /\ RenderThrows
                    /\ root' = CommittedWithEffects
               ELSE /\ drawn' = Screen(isOfficeInitialized, isConnected)
                    /\ root' = Committed
                    /\ UNCHANGED <<prior, handlerReady, readyState, isConnected, pendingError,
                                   loading, prompt, messages>>
            /\ UNCHANGED mounts
    /\ UNCHANGED <<isOfficeInitialized, onReady, sockets, arrivals, sent, tasks, hostVars,
                   returned, inputs>>

\* socket.onmessage of instance m: JSON.parse, then handleServerMessage up to
\* its first await. A socket delivers messages while it is open. bound limits
\* the number of inputs.
ReceiveWithin(m, msg, bound) ==
    /\ SockState(m) = "OPEN"
    /\ inputs < bound
    /\ inputs' = inputs + 1
    /\ IF ~msg.json THEN ParseFails(m, msg, inputs + 1)
       ELSE IF LacksPayload(msg)
       THEN IF msg.event = "status" THEN QueuesThrowingUpdate(m, msg, inputs + 1)
            ELSE HandlerRejects(m, msg, inputs + 1)
       ELSE HandleFrame(m, msg, inputs + 1)

Receive(m, msg) == ReceiveWithin(m, msg, MaxInputs)

\* The values of the text field: a prompt, the prompt between spaces, and
\* white space only.
Prompts == {"hi", " hi ", " "}

\* Mutant: the prompt is tested without trimming.
TrimNothing(s) == s

\* String.prototype.trim on the values of the text field.
Trim(s) ==
    CASE s = " " -> ""
      [] s = " hi " -> "hi"
      [] OTHER -> s

\* The text field and the Send button are rendered once Office is ready and
\* are enabled while isConnected.
InputEnabled == mounts >= 1 /\ ~Unmounted /\ drawn.ready /\ drawn.connected

\* onChange of the text field.
SetPrompt(v) ==
    /\ InputEnabled
    /\ prompt # v
    /\ prompt' = v
    /\ UNCHANGED <<isOfficeInitialized, onReady, root, mounts, prior, sockets, handlerReady,
                   readyState, isConnected, drawn, pendingError, loading, messages, arrivals,
                   sent, tasks, hostVars, returned, inputs>>

\* handleSend, from the Send button or the Enter key: it returns at once on a
\* prompt that trims to nothing and on an App without socket. ws.current.send
\* on a socket that is closing or closed discards the frame.
HandleSend ==
    /\ InputEnabled
    /\ inputs < MaxInputs
    /\ inputs' = inputs + 1
    /\ IF Trim(prompt) = "" \/ readyState = "NONE"
       THEN UNCHANGED <<messages, prompt, loading, sent>>
       ELSE /\ messages' = Append(messages, Entry("user", prompt))
            /\ prompt' = ""
            /\ loading' = TRUE
            /\ sent' = IF readyState = "OPEN"
                       THEN Append(sent, OnSocket(mounts, Chat(prompt)))
                       ELSE sent
    /\ UNCHANGED <<isOfficeInitialized, onReady, root, mounts, prior, sockets, handlerReady,
                   readyState, isConnected, drawn, pendingError, arrivals, tasks, hostRuns,
                   cells, charts, book, hostSyncs, lastCommit, returned>>

\* Excel.run calls the batch callback, which runs up to await context.sync().
RunBatch(t) ==
    /\ t.pc = "acquiring"
    /\ \E e \in BatchErrors(t.tool, t.args) :
       IF e # ""
       THEN /\ tasks' = (tasks \ {t}) \cup
                    {[t EXCEPT !.pc = "released", !.outcome = Rejected(e)]}
            /\ hostSyncs' = hostSyncs
       ELSE /\ tasks' = (tasks \ {t}) \cup {[t EXCEPT !.pc = "syncing", !.syncs = @ + 1]}
            /\ hostSyncs' = hostSyncs + 1
    /\ UNCHANGED <<appVars, cells, charts, book, hostRuns, lastCommit, returned, inputs>>

\* The task t once the host has processed a sync of it.
Synced(t) ==
    [t EXCEPT !.prev = IF t.syncs = 1 THEN lastCommit ELSE @,
              !.solo = @ /\ (t.syncs = 1 \/ lastCommit.seq = t.seq)]

CommitOf(t, ok, last) ==
    [seq |-> t.seq, tool |-> t.tool, args |-> t.args, ok |-> ok, sync |-> t.syncs,
     last |-> last, solo |-> Synced(t).solo, open |-> SocketIsOpen(t.mount)]

\* The number of context.sync() calls in the batch of an operation.
SyncsOf(tool) == IF tool = "delete_all_charts" THEN 2 ELSE 1

\* Mutant: the context is kept when the sync fails.
ReleaseOnSuccess(t, outcome) ==
    IF outcome.status = "fulfilled"
    THEN [Synced(t) EXCEPT !.pc = "released", !.outcome = outcome]
    ELSE [Synced(t) EXCEPT !.outcome = outcome]

\* Excel.run ends: the context is released and the operation returns or throws.
Release(t, outcome) == [Synced(t) EXCEPT !.pc = "released", !.outcome = outcome]

\* Mutant: delete_all_charts deletes in a second Excel.run.
CommitInNewContext(t) ==
    /\ t.pc = "syncing"
    /\ IF t.syncs < SyncsOf(t.tool)
       THEN /\ tasks' = (tasks \ {t}) \cup
                    {[Synced(t) EXCEPT !.syncs = 2, !.loaded = charts]}
            /\ hostSyncs' = hostSyncs + 1
            /\ hostRuns' = hostRuns + 1
            /\ lastCommit' = CommitOf(t, TRUE, FALSE)
            /\ UNCHANGED <<cells, charts, book>>
       ELSE \E o \in HostOutcomes(t.tool, t.args, t.seq, t.loaded, cells, charts, book) :
               /\ cells' = o.cells
               /\ charts' = o.charts
               /\ book' = o.book
               /\ tasks' = (tasks \ {t}) \cup {Release(t, o.outcome)}
               /\ lastCommit' = CommitOf(t, o.outcome.status = "fulfilled", TRUE)
               /\ UNCHANGED <<hostSyncs, hostRuns>>
    /\ UNCHANGED <<appVars, returned, inputs>>

\* The host processes the sync; the callback then runs to its next sync or, with
\* Excel.run, to its end. delete_all_charts syncs twice: the first sync loads
\* the chart items, the second deletes them.
Commit(t) ==
    /\ t.pc = "syncing"
    /\ IF t.syncs < SyncsOf(t.tool)
       THEN /\ tasks' = (tasks \ {t}) \cup
                    {[Synced(t) EXCEPT !.syncs = 2, !.loaded = charts]}
            /\ hostSyncs' = hostSyncs + 1
            /\ lastCommit' = CommitOf(t, TRUE, FALSE)
            /\ UNCHANGED <<cells, charts, book>>
       ELSE \E o \in HostOutcomes(t.tool, t.args, t.seq, t.loaded, cells, charts, book) :
               /\ cells' = o.cells
               /\ charts' = o.charts
               /\ book' = o.book
               /\ tasks' = (tasks \ {t}) \cup {Release(t, o.outcome)}
               /\ lastCommit' = CommitOf(t, o.outcome.status = "fulfilled", TRUE)
               /\ UNCHANGED <<hostSyncs>>
    /\ UNCHANGED <<appVars, hostRuns, returned, inputs>>

\* Mutant: no catch block; a failed operation ends the handler silently.
ResumeWithoutCatch(t) ==
    /\ t.pc = "released"
    /\ t.mount > 0
    /\ tasks' = tasks \ {t}
    /\ sent' = IF t.outcome.status = "fulfilled"
               THEN SendIfOpen(t.mount, ResultFrame(t.request_id, t.outcome, t.seq))
               ELSE sent
    /\ UNCHANGED <<isOfficeInitialized, onReady, root, mounts, prior, sockets, handlerReady,
                   readyState, isConnected, drawn, pendingError, loading, prompt, messages,
                   arrivals, hostVars, returned, inputs>>

\* Mutant: result is one variable shared by the suspended handlers.
ResumeSharedResult(t) ==
    /\ t.pc = "released"
    /\ t.mount > 0
    /\ tasks' = tasks \ {t}
    /\ \E u \in tasks :
          /\ u.pc = "released"
          /\ sent' = SendIfOpen(t.mount, ResultFrame(t.request_id, u.outcome, t.seq))
    /\ UNCHANGED <<isOfficeInitialized, onReady, root, mounts, prior, sockets, handlerReady,
                   readyState, isConnected, drawn, pendingError, loading, prompt, messages,
                   arrivals, hostVars, returned, inputs>>

\* Mutant: a failed operation is answered by the try block's send and then by
\* the catch block's.
ResumeBothBlocks(t) ==
    /\ t.pc = "released"
    /\ t.mount > 0
    /\ tasks' = tasks \ {t}
    /\ sent' = IF t.outcome.status = "rejected" /\ SocketIsOpen(t.mount)
               THEN sent \o <<OnSocket(t.mount, ToolResult(t.request_id, NullResult, t.seq)),
                              OnSocket(t.mount, ResultFrame(t.request_id, t.outcome, t.seq))>>
               ELSE SendIfOpen(t.mount, ResultFrame(t.request_id, t.outcome, t.seq))
    /\ UNCHANGED <<isOfficeInitialized, onReady, root, mounts, prior, sockets, handlerReady,
                   readyState, isConnected, drawn, pendingError, loading, prompt, messages,
                   arrivals, hostVars, returned, inputs>>

\* The handler continues after its await: the try block's send, or the
\* catch's, on the socket of the handler's own instance.
Resume(t) ==
    /\ t.pc = "released"
    /\ t.mount > 0
    /\ tasks' = tasks \ {t}
    /\ sent' = SendIfOpen(t.mount, ResultFrame(t.request_id, t.outcome, t.seq))
    /\ UNCHANGED <<isOfficeInitialized, onReady, root, mounts, prior, sockets, handlerReady,
                   readyState, isConnected, drawn, pendingError, loading, prompt, messages,
                   arrivals, hostVars, returned, inputs>>

-----------------------------------------------------------------------------
(* The tool bridge: the page's life cycle, the socket's events and the     *)
(* frames of the orchestrator, up to MaxInputs inputs.                     *)

Next ==
    \/ Mount
    \/ Effects
    \/ OfficeReady
    \/ HotReload
    \/ Render
    \/ \E m \in Instances : SocketOpen(m)
    \/ \E m \in Instances : SocketClose(m)
    \/ \E m \in Instances : \E msg \in Frames : Receive(m, msg)
    \/ \E t \in tasks : RunBatch(t)
    \/ \E t \in tasks : Commit(t)
    \/ \E t \in tasks : Resume(t)

Spec == Init /\ [][Next]_vars

\* The frames of the fair specification, under "r1": a write that the host
\* accepts, a write that it rejects, a read, and a name that the switch does
\* not have and that is answered without a call.
LiveFrames ==
    {ToolRequest(c[1], "r1", c[2]) :
        c \in { <<"modify_cells", CellsArgs(HelloMap)>>,
                <<"modify_cells", CellsArgs(ObjCells(<< <<"A0", Str("Hello")>> >>))>>,
                <<"read_cells_values", CellsArgs(ArrCells(<<"A1">>))>>,
                <<"write_cells", CellsArgs(HelloMap)>> }}

FairNext ==
    \/ Mount
    \/ Effects
    \/ OfficeReady
    \/ HotReload
    \/ Render
    \/ \E m \in Instances : SocketOpen(m)
    \/ \E m \in Instances : SocketClose(m)
    \/ \E m \in Instances : \E msg \in LiveFrames : Receive(m, msg)
    \/ \E t \in tasks : RunBatch(t)
    \/ \E t \in tasks : Commit(t)
    \/ \E t \in tasks : Resume(t)

\* The host processes every batch it is given and the event loop runs every
\* continuation that is ready.
FairSpec ==
    /\ Init /\ [][FairNext]_vars
    /\ WF_vars(\E t \in tasks : RunBatch(t))
    /\ WF_vars(\E t \in tasks : Commit(t))
    /\ WF_vars(\E t \in tasks : Resume(t))

-----------------------------------------------------------------------------
(* The session and the user: the socket's events, the text field and the   *)
(* Send button, with one frame of each kind and up to MaxInputs inputs.    *)

SessionFrames ==
    {ChatResponse("ok"), ChatResponse("I am sorry"), ChatResponseWith("done", <<"modify_cells">>),
     Status("working"), OtherEvent("ping"), WithoutPayload("status"),
     ToolRequest("modify_cells", "r1", CellsArgs(HelloMap))}

SessionNext ==
    \/ Mount
    \/ Effects
    \/ OfficeReady
    \/ HotReload
    \/ Render
    \/ \E m \in Instances : SocketOpen(m)
    \/ \E m \in Instances : SocketClosing(m)
    \/ \E m \in Instances : SocketClose(m)
    \/ \E m \in Instances : \E msg \in SessionFrames : Receive(m, msg)
    \/ \E v \in Prompts \cup {""} : SetPrompt(v)
    \/ HandleSend
    \/ \E t \in tasks : RunBatch(t)
    \/ \E t \in tasks : Commit(t)
    \/ \E t \in tasks : Resume(t)

SessionSpec == Init /\ [][SessionNext]_vars

-----------------------------------------------------------------------------
(* Replies and notices around a request that reaches the host, up to       *)
(* MaxFrames inputs.                                                       *)

ConversationFrames ==
    {ChatResponse("ok"), Status("working"),
     ToolRequest("modify_cells", "r1", CellsArgs(HelloMap))}

ConversationNext ==
    \/ Mount
    \/ Effects
    \/ OfficeReady
    \/ HotReloadWithin(MaxFrames)
    \/ Render
    \/ \E m \in Instances : SocketOpen(m)
    \/ \E m \in Instances : SocketClose(m)
    \/ \E m \in Instances : \E msg \in ConversationFrames : ReceiveWithin(m, msg, MaxFrames)
    \/ \E t \in tasks : RunBatch(t)
    \/ \E t \in tasks : Commit(t)
    \/ \E t \in tasks : Resume(t)

ConversationSpec == Init /\ [][ConversationNext]_vars

-----------------------------------------------------------------------------
(* Frames the handlers cannot read, among frames they can. *)

MalformedFrames ==
    {NotJSON, WithoutPayload("chat_response"), WithoutPayload("status"),
     WithoutPayload("tool_request")}

WellFormedFrames ==
    {ChatResponse("ok"), Status("working"),
     ToolRequest("modify_cells", "r1", CellsArgs(HelloMap))}

MalformedNext ==
    \/ Mount
    \/ Effects
    \/ OfficeReady
    \/ Render
    \/ \E m \in Instances : SocketOpen(m)
    \/ \E m \in Instances : SocketClose(m)
    \/ \E m \in Instances :
          \E msg \in MalformedFrames \cup WellFormedFrames : ReceiveWithin(m, msg, MaxFrames)
    \/ \E t \in tasks : RunBatch(t)
    \/ \E t \in tasks : Commit(t)
    \/ \E t \in tasks : Resume(t)

MalformedSpec == Init /\ [][MalformedNext]_vars

-----------------------------------------------------------------------------
(* Requests for operations of ExcelTools that the switch does not list. *)

UnlistedFrames ==
    {ToolRequest(n, "r1", CellsArgs(HelloMap)) : n \in UnlistedTools \cup {"modify_cells"}}
        \cup {ToolRequest(n, "r2", NoArgs) : n \in UnlistedTools}

UnlistedNext ==
    \/ Mount
    \/ Effects
    \/ OfficeReady
    \/ HotReload
    \/ Render
    \/ \E m \in Instances : SocketOpen(m)
    \/ \E m \in Instances : SocketClose(m)
    \/ \E m \in Instances : \E msg \in UnlistedFrames : Receive(m, msg)
    \/ \E t \in tasks : RunBatch(t)
    \/ \E t \in tasks : Commit(t)
    \/ \E t \in tasks : Resume(t)

UnlistedSpec == Init /\ [][UnlistedNext]_vars

-----------------------------------------------------------------------------
(* One request for each name that the switch lists. *)

\* One request for each name the switch lists, with arguments its operation
\* accepts, and one for a name it does not list.
RegistryFrames ==
    {ToolRequest(c[1], "r1", c[2]) :
        c \in { <<"modify_cells", CellsArgs(HelloMap)>>,
                <<"read_subtable", BlockArgs("A", "B", 1, 1)>>,
                <<"read_cells_text", CellsArgs(ArrCells(<<"A1">>))>>,
                <<"read_cells_values", CellsArgs(ArrCells(<<"A1">>))>>,
                <<"extend", FillArgs("A1", "B1")>>,
                <<"create_chart", ChartArgs("A1:B2")>>,
                <<"delete_all_charts", NoArgs>>,
                <<"write_cells", CellsArgs(HelloMap)>> }}

RegistryNext ==
    \/ Mount
    \/ Effects
    \/ OfficeReady
    \/ HotReload
    \/ Render
    \/ \E m \in Instances : SocketOpen(m)
    \/ \E m \in Instances : SocketClose(m)
    \/ \E m \in Instances : \E msg \in RegistryFrames : Receive(m, msg)
    \/ \E t \in tasks : RunBatch(t)
    \/ \E t \in tasks : Commit(t)
    \/ \E t \in tasks : Resume(t)

RegistrySpec == Init /\ [][RegistryNext]_vars

-----------------------------------------------------------------------------
(* Requests whose args are absent or empty: every operation of the switch  *)
(* is called without args and with args: {}.                               *)

IncompleteCalls ==
    {<<name, a>> : name \in SwitchNames, a \in {NoArgs, EmptyArgs}}

IncompleteFrames == {ToolRequest(c[1], "r1", c[2]) : c \in IncompleteCalls}

ArgsNext ==
    \/ Mount
    \/ Effects
    \/ OfficeReady
    \/ HotReload
    \/ Render
    \/ \E m \in Instances : SocketOpen(m)
    \/ \E m \in Instances : SocketClose(m)
    \/ \E m \in Instances : \E msg \in IncompleteFrames : Receive(m, msg)
    \/ \E t \in tasks : RunBatch(t)
    \/ \E t \in tasks : Commit(t)
    \/ \E t \in tasks : Resume(t)

ArgsSpec == Init /\ [][ArgsNext]_vars

-----------------------------------------------------------------------------
(* Requests that touch the same cells: two writes of different values to   *)
(* A1, one of which also writes B1, and a read of A1 and B1.               *)

WriteBoth == ObjCells(<< <<"A1", Str("Hello")>>, <<"B1", Str("5")>> >>)
WriteOther == ObjCells(<< <<"A1", Str("5")>> >>)
ReadBoth == ArrCells(<<"A1", "B1">>)

RaceFrames ==
    {ToolRequest("modify_cells", "r1", CellsArgs(WriteBoth)),
     ToolRequest("modify_cells", "r2", CellsArgs(WriteOther)),
     ToolRequest("read_cells_values", "r2", CellsArgs(ReadBoth))}

RaceNext ==
    \/ Mount
    \/ Effects
    \/ OfficeReady
    \/ HotReload
    \/ Render
    \/ \E m \in Instances : SocketOpen(m)
    \/ \E m \in Instances : SocketClose(m)
    \/ \E m \in Instances : \E msg \in RaceFrames : Receive(m, msg)
    \/ \E t \in tasks : RunBatch(t)
    \/ \E t \in tasks : Commit(t)
    \/ \E t \in tasks : Resume(t)

RaceSpec == Init /\ [][RaceNext]_vars
-----------------------------------------------------------------------------
(* The operations of ExcelTools called directly, outside the App. *)

\* Mappings of up to two addresses (two spellings of one cell among them) and
\* lists of up to two addresses; "A0" makes the host reject the batch.
Entries == {"A1", "a1"} \X {Str("Hello"), Str("5")}
CellMaps ==
    {<< >>, << <<"A0", Str("Hello")>> >>}
        \cup {<<e>> : e \in Entries}
        \cup {p \in Entries \X Entries : p[1][1] # p[2][1]}
AddressLists ==
    {<< >>, <<"A0">>}
        \cup {<<x>> : x \in {"A1", "a1"}}
        \cup {<<x, y>> : x \in {"A1", "a1"}, y \in {"A1", "a1"}}

DirectCalls ==
    {<<"modify_cells", CellsArgs(ObjCells(m))>> : m \in CellMaps}
        \cup {<<"modify_cells", CellsArgs(NoCells)>>}
        \cup {<<"read_cells_values", CellsArgs(ArrCells(l))>> : l \in AddressLists}
        \cup {<<"read_cells_text", CellsArgs(ArrCells(l))>> : l \in {<< >>, <<"A1">>}}
        \cup {<<"create_chart", ChartArgs(r)>> : r \in {"A1:B2", "A0"}}
        \cup {<<"create_chart", NoArgs>>, <<"delete_all_charts", NoArgs>>}

\* ExcelTools[name](...) is called; the call runs up to its first await.
Call(name, a) ==
    /\ inputs < MaxCalls
    /\ inputs' = inputs + 1
    /\ LET effect == Invoke(name, a)
       IN IF effect.kind = "run"
          THEN /\ tasks' = tasks \cup {NewTask(inputs + 1, 0, "", name, a)}
               /\ hostRuns' = hostRuns + 1
               /\ returned' = returned
          ELSE /\ tasks' = tasks
               /\ hostRuns' = hostRuns
               /\ returned' = [seq |-> inputs + 1, tool |-> name, args |-> a,
                               outcome |-> effect.outcome, prev |-> NoCommit,
                               runs |-> 0, syncs |-> 0, solo |-> TRUE]
    /\ UNCHANGED <<appVars, cells, charts, book, hostSyncs, lastCommit>>

\* The promise of a direct call settles.
Return(t) ==
    /\ t.pc = "released"
    /\ t.mount = 0
    /\ tasks' = tasks \ {t}
    /\ returned' = [seq |-> t.seq, tool |-> t.tool, args |-> t.args, outcome |-> t.outcome,
                    prev |-> t.prev, runs |-> 1, syncs |-> t.syncs, solo |-> t.solo]
    /\ UNCHANGED <<appVars, hostVars, inputs>>

AdapterNext ==
    \/ \E c \in DirectCalls : Call(c[1], c[2])
    \/ \E t \in tasks : RunBatch(t)
    \/ \E t \in tasks : Commit(t)
    \/ \E t \in tasks : Return(t)

AdapterSpec == Init /\ [][AdapterNext]_vars

-----------------------------------------------------------------------------
(* Every operation of ExcelTools called directly, on a workbook in which   *)
(* the user also selects ranges.                                           *)

\* context.workbook.getSelectedRange(): the user selects a range of the sheet.
SelectRange(address) ==
    /\ book.selection # address
    /\ book' = [book EXCEPT !.selection = address]
    /\ UNCHANGED <<appVars, tasks, cells, charts, hostRuns, hostSyncs, lastCommit, returned,
                   inputs>>

\* The arguments of a direct call, by the names of the operation's parameters;
\* a parameter that is not given has no field.
WorkbookCalls ==
    LET none == [p \in {} |-> ""]
        At(address) == [address |-> address]
        Named(name) == [name |-> name]
    IN {<<"modify_cells", CellsArgs(ObjCells(<< <<"A1", v>> >>))>> :
            v \in {Str("Hello"), Str("=B1")}}
        \cup {<<"read_cells_values", CellsArgs(ArrCells(<<"A1", "B1">>))>>,
              <<"read_cells_text", CellsArgs(ArrCells(<<"A1", "B1">>))>>,
              <<"read_subtable", BlockArgs("A", "B", 1, 2)>>,
              <<"extend", FillArgs("A1", "A2")>>,
              <<"create_chart", ChartArgs("A1:B2")>>,
              <<"delete_all_charts", NoArgs>>}
        \cup {<<"read_range", At(x)>> : x \in {"A1:B2", "B1", "C3", "A0"}}
        \cup {<<n, none>> : n \in {"read_range", "clear_range", "add_border", "get_formula"}}
        \cup {<<"clear_range", At(x)>> : x \in {"B1", "A1:B2", "A0"}}
        \cup {<<n, none>> : n \in {"get_active_sheet", "list_sheets", "list_tables",
                                   "list_named_ranges", "get_used_range", "get_selection",
                                   "calculate", "create_sheet", "protect_sheet",
                                   "unprotect_sheet"}}
        \cup {<<"create_sheet", Named(x)>> : x \in {"Data", "Sheet1", "a/b"}}
        \cup {<<"activate_sheet", Named(x)>> : x \in {"Sheet1", "Data", "Nope"}}
        \cup {<<"delete_sheet", Named(x)>> : x \in {"Sheet1", "Data", "Nope"}}
        \cup {<<"rename_sheet", [oldName |-> "Sheet1", newName |-> x]>> : x \in {"Main", "Data"}}
        \cup {<<"format_cells", At("A1")>>,
              <<"format_cells", [address |-> "A1",
                                 format |-> [backgroundColor |-> "yellow", bold |-> FALSE]]>>,
              <<"format_cells", [address |-> "A1:B2",
                                 format |-> [fontColor |-> "", fontSize |-> 0,
                                             italic |-> TRUE]]>>}
        \cup {<<"add_border", At("A1:B2")>>,
              <<"add_border", [address |-> "B1", style |-> "Thick"]>>}
        \cup {<<"set_number_format", [address |-> x, numberFormat |-> "0.00"]>> :
                 x \in {"B1", "A1:B2"}}
        \cup {<<n, [startRow |-> r, count |-> 1]>> :
                 n \in {"insert_rows", "delete_rows"}, r \in {0, 1}}
        \cup {<<n, [column |-> "A", count |-> k]>> :
                 n \in {"insert_columns", "delete_columns"}, k \in {1, 2}}
        \cup {<<n, [column |-> x]>> :
                 n \in {"insert_columns", "delete_columns"}, x \in {"B", "1"}}
        \cup {<<n, At("A1:B2")>> : n \in {"auto_fit_columns", "auto_fit_rows"}}
        \cup {<<"create_table", [address |-> "A1:B2", tableName |-> x]>> :
                 x \in {"Sales", "A1"}}
        \cup {<<"create_table", [address |-> "A1:B2", tableName |-> "Sales",
                                 hasHeaders |-> "false"]>>}
        \cup {<<"delete_table", [tableName |-> x]>> : x \in {"Sales", "Nope"}}
        \cup {<<"get_formula", At(x)>> : x \in {"A1", "B1"}}
        \cup {<<"set_formula", [address |-> x, formula |-> "=B1"]>> : x \in {"A1", "A1:B2"}}
        \cup {<<"sort_range", [address |-> "A1:B2", columnIndex |-> k]>> : k \in {1, 2}}
        \cup {<<"sort_range", [address |-> "A1:B2", columnIndex |-> 1, ascending |-> FALSE]>>}
        \cup {<<"find_in_range", [address |-> "A1:B2", searchText |-> x]>> : x \in {"7", "z"}}
        \cup {<<"replace_in_range",
                [address |-> "A1:B2", searchText |-> x, replaceText |-> "8"]>> :
                 x \in {"7", "z"}}
        \cup {<<"create_named_range", [name |-> x, address |-> "B1"]>> : x \in {"Total", "B2"}}
        \cup {<<"get_named_range", Named(x)>> : x \in {"Total", "Nope"}}
        \cup {<<"protect_sheet", [password |-> "pw"]>>}
        \cup {<<"unprotect_sheet", [password |-> x]>> : x \in {"pw", "no"}}

WorkbookNext ==
    \/ \E c \in WorkbookCalls : Call(c[1], c[2])
    \/ \E x \in {"A1", "B1:B2"} : SelectRange(x)
    \/ \E t \in tasks : RunBatch(t)
    \/ \E t \in tasks : Commit(t)
    \/ \E t \in tasks : Return(t)

WorkbookSpec == Init /\ [][WorkbookNext]_vars

-----------------------------------------------------------------------------
(* Direct calls of read_subtable on every block of the sheet and on one    *)
(* outside it, with writes that give the cells different contents.         *)

BlockCalls ==
    {<<"read_subtable", BlockArgs(c1, c2, r1, r2)>> :
        c1 \in SeqRange(Cols), c2 \in SeqRange(Cols), r1 \in Rows, r2 \in Rows}
        \cup {<<"read_subtable", BlockArgs("A", "B", 0, 1)>>}
        \cup {<<"modify_cells", CellsArgs(ObjCells(m))>> :
                 m \in {<< <<"A1", Str("Hello")>>, <<"B1", Str("5")>> >>,
                        << <<"A2", Str("5")>>, <<"B2", Str("Hello")>> >>}}

BlockNext ==
    \/ \E c \in BlockCalls : Call(c[1], c[2])
    \/ \E t \in tasks : RunBatch(t)
    \/ \E t \in tasks : Commit(t)
    \/ \E t \in tasks : Return(t)

BlockSpec == Init /\ [][BlockNext]_vars

-----------------------------------------------------------------------------
(* Direct calls of the chart operations: create_chart with dataRange only  *)
(* and with some of the options, and delete_all_charts.                    *)

SalesOptions ==
    [ChartArgs("A1:B2") EXCEPT !.chartType = "Line", !.title = "Sales",
                               !.hasHeaders = "false",
                               !.given = @ \cup {"chartType", "title", "hasHeaders"}]

\* { dataRange: "A1:B2", title: "", width: 0 }
BlankOptions ==
    [ChartArgs("A1:B2") EXCEPT !.title = "", !.width = 0,
                               !.given = @ \cup {"title", "width"}]

ChartCalls ==
    {<<"create_chart", ChartArgs("A1:B2")>>,
     <<"create_chart", SalesOptions>>,
     <<"create_chart", BlankOptions>>,
     <<"delete_all_charts", NoArgs>>}

ChartNext ==
    \/ \E c \in ChartCalls : Call(c[1], c[2])
    \/ \E t \in tasks : RunBatch(t)
    \/ \E t \in tasks : Commit(t)
    \/ \E t \in tasks : Return(t)

ChartSpec == Init /\ [][ChartNext]_vars

-----------------------------------------------------------------------------
(* Direct calls of every operation that the switch of the App names, ones  *)
(* that succeed and ones that fail at the host, under a host that          *)
(* processes every batch and an event loop that runs every continuation.   *)

SettlingCalls ==
    {<<"modify_cells", CellsArgs(ObjCells(m))>> :
        m \in {<< <<"A1", Str("Hello")>> >>, << <<"A0", Str("Hello")>> >>}}
        \cup {<<"read_cells_values", CellsArgs(ArrCells(l))>> : l \in {<<"A1">>, <<"A0">>}}
        \cup {<<"read_cells_text", CellsArgs(ArrCells(<<"B1">>))>>,
              <<"read_subtable", BlockArgs("A", "B", 1, 1)>>,
              <<"extend", FillArgs("A1", "B1")>>}
        \cup {<<"create_chart", ChartArgs(r)>> : r \in {"A1:B2", "A0"}}
        \cup {<<"delete_all_charts", NoArgs>>}

SettlingNext ==
    \/ \E c \in SettlingCalls : Call(c[1], c[2])
    \/ \E t \in tasks : RunBatch(t)
    \/ \E t \in tasks : Commit(t)
    \/ \E t \in tasks : Return(t)

SettlingSpec ==
    /\ Init /\ [][SettlingNext]_vars
    /\ WF_vars(\E t \in tasks : RunBatch(t))
    /\ WF_vars(\E t \in tasks : Commit(t))
    /\ WF_vars(\E t \in tasks : Return(t))

-----------------------------------------------------------------------------
(* Invocations of both kinds: requests that the App dispatches, answers    *)
(* itself or drops, and direct calls of the chart operations.              *)

InvocationFrames ==
    {ToolRequest(c[1], "r1", c[2]) :
        c \in { <<"modify_cells", CellsArgs(HelloMap)>>,
                <<"modify_cells", CellsArgs(ObjCells(<< >>))>>,
                <<"read_cells_text", CellsArgs(ArrCells(<< >>))>>,
                <<"read_subtable", BlockArgs("A", "B", 1, 1)>>,
                <<"extend", FillArgs("A1", "B1")>>,
                <<"delete_all_charts", NoArgs>>,
                <<"write_cells", CellsArgs(HelloMap)>> }}

InvocationCalls ==
    {<<"create_chart", ChartArgs("A1:B2")>>, <<"delete_all_charts", NoArgs>>,
     <<"modify_cells", CellsArgs(NoCells)>>}

InvocationNext ==
    \/ Mount
    \/ Effects
    \/ OfficeReady
    \/ Render
    \/ \E m \in Instances : SocketOpen(m)
    \/ \E m \in Instances : SocketClose(m)
    \/ \E m \in Instances : \E msg \in InvocationFrames : Receive(m, msg)
    \/ \E c \in InvocationCalls : Call(c[1], c[2])
    \/ \E t \in tasks : RunBatch(t)
    \/ \E t \in tasks : Commit(t)
    \/ \E t \in tasks : Resume(t)
    \/ \E t \in tasks : Return(t)

InvocationSpec == Init /\ [][InvocationNext]_vars

-----------------------------------------------------------------------------
(* Properties. *)

Results == {i \in DOMAIN sent : sent[i].event = "tool_result"}
ToolArrivals == {a \in arrivals : a.event = "tool_request"}
NewArrivals == arrivals' \ arrivals

\* The frames that a step puts on the sockets.
NewlySent == SubSeq(sent', Len(sent) + 1, Len(sent'))

\* C1: every tool_result put on a socket carries the request_id of a
\* tool_request that was received earlier on that same socket; none is an orphan.
C1_NoOrphanResult ==
    \A i \in Results :
        \E a \in ToolArrivals :
            /\ a.request_id = sent[i].request_id
            /\ a.mount = sent[i].socket
            /\ a.seq <= sent[i].cause

\* An App that the root held no more took a request and answered it on its own
\* socket after the operation had succeeded.
C1_Witness ==
    \E i \in Results :
        \E a \in ToolArrivals :
            /\ a.seq = sent[i].cause
            /\ ~a.mounted
            /\ sent[i].socket = a.mount
            /\ sent[i].result = StrResult("Success")

Answered(s) ==
    \E i \in Results :
        /\ sent[i].cause = s
        /\ \E a \in ToolArrivals :
              a.seq = s /\ a.request_id = sent[i].request_id /\ a.mount = sent[i].socket

\* The socket on which the request of arrival s came is open no more.
SessionOver(s) == \E a \in ToolArrivals : a.seq = s /\ ~SocketIsOpen(a.mount)

\* The handler of t completes in this step, or answers at once on arrival.
Completes(t) == t.pc = "released" /\ t.mount > 0 /\ t \notin tasks'

\* C2: an admitted tool_request leads to a tool_result with its request_id,
\* whether its operation succeeds or fails, unless its session stops being
\* open; and a handler that completes while its session is open sends the
\* tool_result in that step.
C2_AdmittedIsAnswered ==
    /\ \A s \in 1 .. MaxInputs :
          (\E a \in ToolArrivals : a.seq = s /\ a.admitted) ~> (Answered(s) \/ SessionOver(s))
    /\ [][\A t \in tasks :
             (Completes(t) /\ SocketIsOpen(t.mount))
                => /\ Len(sent') = Len(sent) + 1
                   /\ sent'[Len(sent')].event = "tool_result"
                   /\ sent'[Len(sent')].request_id = t.request_id
                   /\ sent'[Len(sent')].socket = t.mount]_vars

C2_Witness ==
    \E i, j \in Results :
        /\ Answered(sent[i].cause) /\ Answered(sent[j].cause)
        /\ sent[i].result = StrResult("Error: " \o InvalidArgument)
        /\ sent[j].result = StrResult("Success")
        /\ SocketIsOpen(sent[i].socket)

\* C3 (as claimed): on an App that was mounted before the host was ready, a
\* tool_request that arrives once isOfficeInitialized is true is admitted.
C3_AdmittedOnceReady ==
    \A a \in ToolArrivals : (~a.gate /\ a.ready) => a.admitted

\* C4: a tool_request that arrives while the readiness flag, as
\* handleServerMessage reads it, is false is dropped:
\* it is not admitted, no operation runs or waits for it, the host never
\* processes a batch for it and no tool_result answers it, also after the flag
\* has become true.
C4_UnreadyRequestDropped ==
    \A a \in ToolArrivals :
        ~a.gate =>
            /\ ~a.admitted
            /\ \A t \in tasks : t.seq # a.seq
            /\ \A i \in Results : sent[i].cause # a.seq
            /\ lastCommit.seq # a.seq
            /\ hostRuns <= Cardinality({b \in ToolArrivals : b.admitted})

C4_Witness ==
    /\ isOfficeInitialized
    /\ inputs = MaxInputs
    /\ \E a \in ToolArrivals :
          /\ ~a.ready
          /\ a.tool_name = "modify_cells"
          /\ a.args.cells = HelloMap
          /\ SocketIsOpen(a.mount)
          /\ IsMounted(a.mount)
          /\ drawn.ready

\* C5: an admitted tool_request whose tool_name is not a name of the switch is
\* answered with its request_id and the unknown-tool marker; nothing is thrown
\* and no operation on the workbook is started for it.
C5_UnknownToolMarker ==
    \A a \in ToolArrivals :
        (a.admitted /\ a.tool_name \notin SwitchNames) =>
            /\ \E i \in Results :
                  /\ sent[i].cause = a.seq
                  /\ sent[i].socket = a.mount
                  /\ sent[i].request_id = a.request_id
                  /\ sent[i].result = StrResult("Error: Unknown tool name")
            /\ Switch(a.tool_name, a.args).kind = "return"
            /\ \A t \in tasks : t.seq # a.seq
            /\ lastCommit.seq # a.seq

\* The request was taken by an App that the root held no more.
C5_Witness ==
    \E a \in ToolArrivals :
        /\ a.admitted
        /\ ~a.mounted
        /\ a.tool_name = "write_cells"
        /\ \E i \in Results : sent[i].cause = a.seq /\ sent[i].request_id = "r1"

\* The operation of the handler that completes as t threw.
Fails(t) == Completes(t) /\ t.outcome.status = "rejected"

\* The tool_result that answers a failure with the message m.
FailureResult(m, rid, message, seq) ==
    OnSocket(m, ToolResult(rid, StrResult("Error: " \o message), seq))

\* C6 (as claimed): whenever an operation on the workbook throws, the handler
\* sends a tool_result with the request's request_id and "Error: <message>".
C6_FailureAlwaysAnswered ==
    [][\A t \in tasks :
          Fails(t) => sent' = Append(sent, FailureResult(t.mount, t.request_id,
                                                         t.outcome.message, t.seq))]_vars

\* C6 (amended): when an operation throws while the socket of its handler's App
\* is open, the handler sends on that socket a tool_result with the request's
\* request_id and "Error: <message>", and the socket stays open; an operation
\* that throws before its first await is answered in the step of its arrival.
C6_FailureIsAnswered ==
    [][/\ \A t \in tasks :
             (Fails(t) /\ SocketIsOpen(t.mount))
                => /\ sent' = Append(sent, FailureResult(t.mount, t.request_id,
                                                         t.outcome.message, t.seq))
                   /\ UNCHANGED <<readyState, prior, mounts>>
       /\ \A a \in NewArrivals :
             (/\ a.admitted
              /\ a.frame.payload
              /\ Switch(a.tool_name, a.args).kind = "throw")
                => /\ sent' = Append(sent,
                                     FailureResult(a.mount, a.request_id,
                                                   Switch(a.tool_name, a.args).outcome.message,
                                                   a.seq))
                   /\ UNCHANGED <<readyState, prior, mounts>>]_vars

\* A failure at the host was answered and a frame that arrived after it was
\* handled too.
C6_Witness ==
    \E i, j \in Results :
        /\ i < j
        /\ sent[i].result = StrResult("Error: " \o InvalidArgument)
        /\ sent[j].cause > sent[i].cause
        /\ sent[j].socket = sent[i].socket
        /\ sent[j].result = StrResult("Success")

\* C7 (as claimed): the frame tool_request write_cells r1 {A1: "Hello"} is
\* answered with tool_result r1 "Success", and A1 then holds "Hello".
C7_WriteCellsSucceeds ==
    \A i \in Results :
        \A a \in ToolArrivals :
            (/\ a.seq = sent[i].cause
             /\ a.tool_name = "write_cells"
             /\ a.args.cells = HelloMap
             /\ a.request_id = "r1")
                => /\ sent[i].result = StrResult("Success")
                   /\ \/ cells["A1"] = Str("Hello")
                      \/ lastCommit.seq > a.seq

\* The read that returned last was committed right after a modify_cells that
\* succeeded, and asked for the addresses that the modify_cells wrote.
ReadBackCase ==
    /\ returned.tool = "read_cells_values"
    /\ returned.outcome.status = "fulfilled"
    /\ returned.prev.tool = "modify_cells"
    /\ returned.prev.ok
    /\ SeqRange(returned.args.cells.items)
          = {e[1] : e \in SeqRange(returned.prev.args.cells.entries)}

\* The value of the last entry of es that writes the cell of address x.
LastWritten(es, x) ==
    LET hits == {i \in 1 .. Len(es) : CellOf(es[i][1]) = CellOf(x)}
    IN es[CHOOSE i \in hits : \A j \in hits : j <= i][2]

\* C8 (as claimed): modify_cells of a non-empty mapping and then
\* read_cells_values of the same addresses, with no commit in between, returns
\* for each address the value that was written.
C8_ReadBackWritten ==
    ReadBackCase =>
        \A e \in SeqRange(returned.prev.args.cells.entries) :
            returned.outcome.result.obj[e[1]] = e[2]

\* C8 (amended): the read returns for each address what the host stored in its
\* cell: the value of the mapping's last entry for that cell, as the host
\* parsed it (a numeric string is read back as a number).
C8_ReadBackStored ==
    ReadBackCase =>
        /\ returned.outcome.result.kind = "object"
        /\ DOMAIN returned.outcome.result.obj = SeqRange(returned.args.cells.items)
        /\ \A e \in SeqRange(returned.prev.args.cells.entries) :
              returned.outcome.result.obj[e[1]]
                  = HostCoerce(LastWritten(returned.prev.args.cells.entries, e[1]))

C8_Witness ==
    /\ ReadBackCase
    /\ Len(returned.prev.args.cells.entries) = 2
    /\ returned.outcome.result.obj["a1"] = Num("5")

\* C9: read_cells_text and read_cells_values of an empty address list return an
\* empty mapping; the call makes no Excel.run and no context.sync, and the
\* workbook and the counts of host calls are as before.
C9_EmptyReadTouchesNothing ==
    [][(/\ returned'.seq # returned.seq
        /\ returned'.tool \in {"read_cells_text", "read_cells_values"}
        /\ returned'.args.cells = ArrCells(<< >>))
       => /\ returned'.outcome = Fulfilled(ObjResult(NoObj))
          /\ returned'.runs = 0
          /\ returned'.syncs = 0
          /\ UNCHANGED <<cells, charts, hostRuns, hostSyncs, lastCommit, tasks>>]_vars

C9_Witness ==
    /\ returned.tool = "read_cells_text"
    /\ returned.args.cells = ArrCells(<< >>)
    /\ returned.outcome = Fulfilled(ObjResult(NoObj))
    /\ lastCommit.tool = "modify_cells"

\* C10: modify_cells of an empty or missing mapping returns the string
\* "Error: No cells data provided to write." without throwing; it makes no
\* Excel.run and no context.sync and changes no cell, and the handler sends the
\* string as the payload.result of the tool_result.
C10_EmptyMappingRejected ==
    [][\A a \in NewArrivals :
          (/\ a.admitted
           /\ a.frame.payload
           /\ a.tool_name = "modify_cells"
           /\ a.args.defined
           /\ a.args.cells \in {NoCells, ObjCells(<< >>)})
          => /\ Invoke(a.tool_name, a.args) = Returns(StrResult(NoCellsMessage))
             /\ sent' = Append(sent, OnSocket(a.mount,
                                    ToolResult(a.request_id, StrResult(NoCellsMessage), a.seq)))
             /\ UNCHANGED <<tasks, cells, charts, book, hostRuns, hostSyncs, lastCommit>>]_vars

C10_Witness ==
    /\ \E i \in Results :
          /\ sent[i].result = StrResult(NoCellsMessage)
          /\ \E a \in ToolArrivals : a.seq = sent[i].cause /\ a.args.cells = NoCells
    /\ cells["A1"] = Str("Hello")

\* The call t syncs for the second time, right after its own first sync, and
\* the sync before that ended another delete_all_charts that succeeded and was
\* not interleaved either: two consecutive calls, nothing in between.
SecondDelete(t) ==
    /\ t.tool = "delete_all_charts"
    /\ t.pc = "syncing"
    /\ t.syncs = 2
    /\ lastCommit.seq = t.seq
    /\ t.prev.tool = "delete_all_charts"
    /\ t.prev.seq # t.seq
    /\ t.prev.last /\ t.prev.ok /\ t.prev.solo

\* C11: delete_all_charts is idempotent: a second call right after a first one
\* also returns "All charts deleted", and leaves the sheet as the first call
\* left it, with no chart.
C11_DeleteAllChartsIdempotent ==
    [][\A t \in tasks : \A u \in tasks' :
          (SecondDelete(t) /\ u.seq = t.seq /\ u.pc = "released")
          => /\ u.outcome = Fulfilled(StrResult("All charts deleted"))
             /\ charts = {}
             /\ charts' = charts]_vars

C11_Witness ==
    /\ charts = {}
    /\ returned.tool = "delete_all_charts"
    /\ returned.outcome = Fulfilled(StrResult("All charts deleted"))
    /\ returned.solo
    /\ returned.prev.tool = "delete_all_charts"
    /\ returned.prev.seq # returned.seq
    /\ returned.prev.last /\ returned.prev.ok /\ returned.prev.solo

\* C12 (as claimed): every call of an operation that acquired a context and
\* returned has issued exactly one context.sync(), delete_all_charts included.
C12_ExactlyOneCommit ==
    (returned.runs = 1 /\ returned.outcome.status = "fulfilled") => returned.syncs = 1

Acquired(s) == \E t \in tasks : t.seq = s /\ t.pc \in {"acquiring", "syncing"}
Released(s) ==
    \E t \in tasks :
        t.seq = s /\ t.pc = "released" /\ t.outcome.status \in {"fulfilled", "rejected"}

\* C13: every call that has acquired a context reaches the released state with
\* its outcome settled, on the success path and on the failure path, and the
\* call that has returned or thrown holds no context.
C13_AcquiredIsReleased ==
    /\ \A s \in 1 .. MaxCalls : Acquired(s) ~> Released(s)
    /\ [](returned.seq > 0 => ~Acquired(returned.seq))

C13_Witness ==
    /\ \E t \in tasks :
          t.pc = "released" /\ t.tool = "modify_cells" /\ t.outcome.status = "rejected"
    /\ \E t \in tasks :
          t.pc = "released" /\ t.tool = "extend" /\ t.outcome.status = "fulfilled"

\* The order of the connectivity states.
Rank(rs) ==
    CASE rs = "NONE" -> 0
      [] rs = "CONNECTING" -> 1
      [] rs = "OPEN" -> 2
      [] rs = "CLOSING" -> 3
      [] rs = "CLOSED" -> 4

UserEntries == {i \in DOMAIN messages : messages[i].sender = "user"}
Notices == {i \in DOMAIN messages : messages[i] = ConnectionLost}

\* The instances that have a socket before and after the step.
Lasting == {m \in Instances : m \in Instances'}

\* C14: the connectivity state of an App instance only moves forward,
\* connecting to open to closed, whatever the sockets and the user do: the
\* state of its socket never goes back, isConnected becomes true only at the
\* open event of its socket, and is false once the socket is closed.
C14_StateNeverRegresses ==
    [][/\ \A m \in Lasting : Rank(SockState(m)') >= Rank(SockState(m))
       /\ (isConnected' /\ ~isConnected)
             => (mounts' = mounts /\ readyState = "CONNECTING" /\ readyState' = "OPEN")
       /\ readyState' = "CLOSED" => ~isConnected'
       /\ readyState = "CLOSED" => ~isConnected']_vars

C14_Witness ==
    /\ readyState = "CLOSED" /\ ~isConnected
    /\ UserEntries # {}
    /\ arrivals # {}

\* The socket of instance m closes in this step.
Closes(m) == SockState(m) # "CLOSED" /\ SockState(m)' = "CLOSED"

\* C15 (as claimed): whenever a socket closes, one "Connection lost." notice is
\* appended to the conversation.
C15_EveryCloseAddsNotice ==
    [][\A m \in Lasting : Closes(m) => messages' = Append(messages, ConnectionLost)]_vars

\* C15 (amended): when the socket of the App that the root holds closes,
\* whether or not it had opened, the state is closed, isConnected is false and
\* exactly one "Connection lost." notice is appended to the conversation, which
\* holds none before; when the socket of an App that the root holds no more
\* closes, nothing is appended.
C15_OneNoticePerClose ==
    /\ [](Cardinality(Notices) = (IF readyState = "CLOSED" THEN 1 ELSE 0))
    /\ [][\A m \in Lasting :
             Closes(m) =>
                 IF IsMounted(m)
                 THEN /\ messages' = Append(messages, ConnectionLost)
                      /\ readyState' = "CLOSED"
                      /\ ~isConnected'
                 ELSE messages' = messages]_vars

\* The socket of the App that was replaced and the one of the App that replaced
\* it have both closed; the conversation holds one notice.
C15_Witness ==
    /\ readyState = "CLOSED"
    /\ prior.mount = 1 /\ mounts = 2
    /\ prior.readyState = "CLOSED"
    /\ Cardinality(Notices) = 1

\* C16: a connection is created only by the effect of a mount, one for each
\* mount; a socket that has closed stays closed, and the App of a closed socket
\* leaves that state only by being removed from the root.
C16_OneConnectionPerMount ==
    /\ [](sockets <= mounts)
    /\ [][/\ sockets' # sockets
               => /\ sockets' = sockets + 1
                  /\ sockets < mounts
                  /\ readyState = "NONE" /\ readyState' = "CONNECTING"
          /\ \A m \in Lasting : SockState(m) = "CLOSED" => SockState(m)' = "CLOSED"
          /\ (readyState = "CLOSED" /\ readyState' # "CLOSED")
               => (readyState' = "NONE" /\ prior'.mount = mounts)]_vars

\* The first App's socket closed and stayed closed; the App was replaced and
\* the effect of the second one opened the second socket.
C16_Witness ==
    /\ mounts = 2
    /\ sockets = 2
    /\ prior.mount = 1 /\ prior.readyState = "CLOSED" /\ ~prior.cleanup
    /\ readyState = "OPEN"
    /\ \E a \in arrivals : a.mount = 1

\* C17 (as claimed): when the session is not open, handleSend puts no chat
\* frame on the socket, appends no entry and does not set loading.
C17_SendWhileNotOpenIsNoOp ==
    [][(readyState # "OPEN" /\ HandleSend) => UNCHANGED <<sent, messages, loading>>]_vars

KnownEvents == {"chat_response", "status", "tool_request"}

\* C18: a frame whose event is none of chat_response, status and tool_request
\* is ignored: handling it changes neither the conversation, nor the frames
\* sent, nor the workbook and the calls in progress, nor the state of any
\* socket.
C18_UnknownEventIgnored ==
    [][\A a \in NewArrivals :
          (a.frame.json /\ a.event \notin KnownEvents)
          => UNCHANGED <<messages, sent, tasks, cells, charts, book, hostRuns, hostSyncs,
                         lastCommit, readyState, isConnected, prior, mounts>>]_vars

\* An unknown frame was ignored and the chat_response after it was shown.
C18_Witness ==
    /\ readyState = "OPEN"
    /\ \E a \in arrivals : a.seq = 1 /\ a.event \notin KnownEvents
    /\ \E a \in arrivals : a.seq = 2 /\ a.event = "chat_response"
    /\ messages = <<Greeting, BotEntry("ok", 2)>>

ShownArrivals == {a \in arrivals : a.event \in {"chat_response", "status"}}
ShownEntries == {i \in DOMAIN messages : messages[i].cause > 0}

\* C19: the entries for chat_response and status frames are in the conversation
\* in the order in which the frames arrived, also when handlers of tool
\* requests are suspended in between; every such entry is that of a frame that
\* the App took while the root held it, and every such frame has its entry.
C19_EntriesInArrivalOrder ==
    /\ \A i, j \in ShownEntries : i < j => messages[i].cause < messages[j].cause
    /\ \A i \in ShownEntries :
          \E a \in ShownArrivals :
              messages[i].cause = a.seq /\ a.mount = mounts /\ a.mounted
    /\ \A a \in ShownArrivals :
          (a.mount = mounts /\ a.mounted /\ ~Unmounted)
              => \E i \in ShownEntries : messages[i].cause = a.seq

\* A reply, then a tool request whose handler is still suspended, then a status.
C19_Witness ==
    /\ \E t \in tasks : t.seq = 2 /\ t.pc \in {"acquiring", "syncing"}
    /\ messages = <<Greeting, BotEntry("ok", 1), BotEntry(StatusPrefix \o "working", 3)>>

\* C20: a suspended handler does not block the router: a frame that arrives
\* while handlers of the instance are suspended is handled as any other: a
\* reply or a status is appended to the conversation, and a tool request is
\* dispatched next to the calls in progress or answered at once.
C20_RouterNeverBlocked ==
    [][\A a \in NewArrivals :
          (a.busy > 0 /\ a.frame.json /\ a.frame.payload) =>
              /\ (a.event \in {"chat_response", "status"} /\ a.mounted)
                    => /\ Len(messages') = Len(messages) + 1
                       /\ messages'[Len(messages')].cause = a.seq
              /\ (a.admitted /\ Switch(a.tool_name, a.args).kind = "run")
                    => /\ tasks \subseteq tasks'
                       /\ \E t \in tasks' \ tasks :
                             t.seq = a.seq /\ t.mount = a.mount /\ t.pc = "acquiring"
              /\ (a.admitted /\ Switch(a.tool_name, a.args).kind # "run")
                    => /\ Len(sent') = Len(sent) + 1
                       /\ sent'[Len(sent')].cause = a.seq]_vars

\* Two tool requests are in progress at the same time, each under its own id.
C20_Witness ==
    \E t, u \in tasks :
        /\ t.seq < u.seq
        /\ t.mount = u.mount
        /\ t.request_id = "r1" /\ u.request_id = "r2"
        /\ t.pc = "syncing" /\ u.pc = "syncing"
        /\ \E a \in arrivals : a.seq = u.seq /\ a.busy = 1

IsPrefix(a, b) == Len(a) <= Len(b) /\ SubSeq(b, 1, Len(a)) = a

\* C21 (as claimed): the conversation is append-only: every step leaves the old
\* conversation as a prefix of the new one.
C21_LogAppendOnly ==
    [][IsPrefix(messages, messages')]_vars

\* The property of args that the operation of a tool reads and needs.
Lacks(name, a) ==
    CASE name \in {"modify_cells", "read_cells_text", "read_cells_values"} ->
            a.cells.kind = "undefined"
      [] name = "read_subtable" -> a.col1 = ""
      [] name = "extend" -> a.source = ""
      [] name = "create_chart" -> "dataRange" \notin a.given
      [] OTHER -> FALSE

\* The admitted requests for a known tool whose args are absent or incomplete.
Incomplete ==
    {a \in ToolArrivals :
        /\ a.admitted
        /\ a.tool_name \in SwitchNames
        /\ ~a.args.defined \/ Lacks(a.tool_name, a.args)}

\* The results that carry an error.
ErrorResults ==
    {StrResult(NoCellsMessage)} \cup
    {StrResult("Error: " \o m) :
        m \in {"Cannot read properties of undefined (reading 'cells')",
               "Cannot read properties of undefined (reading 'col1')",
               "Cannot read properties of undefined (reading 'source')",
               "Cannot read properties of undefined (reading 'length')",
               "ExcelTools.create_chart is not a function",
               "ExcelTools.delete_all_charts is not a function",
               InvalidArgument}}

\* C22 (as claimed): an admitted request for a known tool whose args are absent
\* or lack what the operation needs is never left without a reply: once its
\* handler has finished, a tool_result with its request_id answers it.
C22_IncompleteAlwaysAnswered ==
    \A a \in Incomplete :
        \/ \E i \in Results : sent[i].cause = a.seq /\ sent[i].request_id = a.request_id
        \/ \E t \in tasks : t.seq = a.seq

\* C22 (amended): an admitted request for a known tool whose args are absent or
\* incomplete is answered on its socket under its request_id with a result that
\* carries an error, unless the socket stops being open before the operation
\* completes; then nothing answers it.
C22_IncompleteArgsIsAnswered ==
    \A a \in Incomplete :
        /\ \A i \in Results :
              sent[i].cause = a.seq =>
                  /\ sent[i].request_id = a.request_id
                  /\ sent[i].socket = a.mount
                  /\ sent[i].result \in ErrorResults
        /\ \/ \E i \in Results : sent[i].cause = a.seq
           \/ \E t \in tasks : t.seq = a.seq
           \/ ~SocketIsOpen(a.mount)

\* A read without its list was answered with the caught TypeError, and the
\* request after it, without args at all, was answered too.
C22_Witness ==
    \E i, j \in Results :
        /\ i < j
        /\ \E a \in Incomplete :
              /\ a.seq = sent[i].cause
              /\ a.tool_name = "read_cells_values" /\ a.args = EmptyArgs
        /\ sent[i].result =
              StrResult("Error: Cannot read properties of undefined (reading 'length')")
        /\ \E a \in Incomplete :
              /\ a.seq = sent[j].cause
              /\ a.tool_name = "read_subtable" /\ ~a.args.defined
        /\ sent[j].result =
              StrResult("Error: Cannot read properties of undefined (reading 'col1')")
        /\ SocketIsOpen(sent[j].socket)

\* The outcomes the host can give the last sync of task t in the current state.
OwnOutcomes(t) ==
    {o.outcome : o \in HostOutcomes(t.tool, t.args, t.seq, t.loaded, cells, charts, book)}

\* The tool_result frames that a step puts on the sockets.
NewResults == {k \in DOMAIN sent' : k > Len(sent) /\ sent'[k].event = "tool_result"}

\* C23: under any interleaving of suspended handlers, the tool_result emitted
\* under request_id r carries the outcome of the operation (tool_name and args)
\* of the request that named r: a suspended handler keeps the tool and args of
\* its own request, its operation ends with an outcome of that tool on those
\* args, and the frame it sends carries that outcome under its request_id.
C23_ResultIsOwnOutcome ==
    [][/\ \A t \in tasks :
             \E a \in ToolArrivals :
                 /\ a.seq = t.seq /\ a.request_id = t.request_id /\ a.mount = t.mount
                 /\ a.tool_name = t.tool /\ a.args = t.args
       /\ \A t \in tasks, u \in tasks' :
             t.seq = u.seq
                 => u.request_id = t.request_id /\ u.tool = t.tool /\ u.args = t.args
       /\ \A t \in tasks, u \in tasks' :
             (t.seq = u.seq /\ t.pc = "syncing" /\ u.pc = "released")
                 => u.outcome \in OwnOutcomes(t)
       /\ \A k \in NewResults :
             \/ \E t \in tasks \ tasks' :
                   /\ t.pc = "released"
                   /\ sent'[k] = OnSocket(t.mount,
                                          ToolResult(t.request_id, ResultOf(t.outcome), t.seq))
             \/ \E a \in NewArrivals :
                   /\ Switch(a.tool_name, a.args).kind # "run"
                   /\ sent'[k] = OnSocket(a.mount,
                                          ToolResult(a.request_id,
                                                     ResultOf(Switch(a.tool_name, a.args).outcome),
                                                     a.seq))]_vars

\* A read under "r1" and a write under "r2" were suspended together; the write
\* was answered first, and each result is that of its own operation.
C23_Witness ==
    \E i, j \in Results :
        /\ i < j
        /\ sent[i] = OnSocket(1, ToolResult("r2", StrResult("Success"), 2))
        /\ sent[j].cause = 1 /\ sent[j].request_id = "r1"
        /\ sent[j].result.kind = "object"
        /\ \E a \in ToolArrivals : a.seq = 1 /\ a.tool_name = "read_cells_values"
        /\ lastCommit.seq = 1

\* C24: tool_result frames are not ordered by request arrival: the result of a
\* later request can be on the socket while an earlier request has none. What
\* relates a result to its request is the equal request_id: every tool_result
\* carries the request_id of the admitted request whose handler sent it.
C24_ResultsNotInArrivalOrder ==
    \A i \in Results :
        \E a \in ToolArrivals :
            a.admitted /\ a.seq = sent[i].cause /\ a.request_id = sent[i].request_id

\* Two requests were admitted and both reached the host; the later one has its
\* result on the socket and the earlier one is still suspended.
C24_Witness ==
    /\ \E a, b \in ToolArrivals :
          /\ a.admitted /\ b.admitted
          /\ a.seq = 1 /\ b.seq = 2
          /\ a.mount = b.mount
          /\ a.request_id = "r1" /\ b.request_id = "r2"
          /\ SocketIsOpen(a.mount)
    /\ \E i \in Results : sent[i].cause = 2 /\ sent[i].request_id = "r2"
    /\ ~\E i \in Results : sent[i].cause = 1
    /\ \E t \in tasks : t.seq = 1 /\ t.pc = "syncing"
    /\ lastCommit.seq = 2

\* C25: when a session closes while operations are in flight they are not
\* cancelled: the step in which a socket stops being open changes neither the
\* suspended handlers nor the workbook, a write whose sync the host accepts
\* while the socket of its handler is not open takes effect, and the handler
\* that completes with its socket not open emits nothing.
C25_CloseDoesNotCancel ==
    [][/\ \A m \in Lasting :
             (SockState(m) = "OPEN" /\ SockState(m)' # "OPEN")
                => UNCHANGED <<tasks, cells, charts, book>>
       /\ \A t \in tasks :
             /\ (/\ t.mount > 0 /\ ~SocketIsOpen(t.mount)
                 /\ t.pc = "syncing" /\ t.tool = "modify_cells"
                 /\ \E u \in tasks' :
                       u.seq = t.seq /\ u.pc = "released" /\ u.outcome.status = "fulfilled")
                    => cells' = ApplyWrites(cells, ObjectEntries(t.args.cells))
             /\ (Completes(t) /\ ~SocketIsOpen(t.mount)) => sent' = sent]_vars

\* The session closed with a write suspended; the host processed the sync of
\* the write after that, the write is in the workbook, its handler has
\* finished and no tool_result was emitted.
C25_Witness ==
    /\ readyState = "CLOSED"
    /\ mounts = 1
    /\ \E a \in ToolArrivals :
          /\ a.admitted /\ a.seq = 1
          /\ a.tool_name = "modify_cells" /\ a.args = CellsArgs(HelloMap)
    /\ cells["A1"] = Str("Hello")
    /\ lastCommit.seq = 1 /\ lastCommit.ok /\ ~lastCommit.open
    /\ tasks = {}
    /\ Results = {}
    /\ messages[Len(messages)] = ConnectionLost

\* C27: there is no mutual exclusion between concurrent operations: two
\* contexts are open at once, and after an accepted write the cells it wrote
\* hold its values, so that the final value of a cell that two calls write is
\* that of the call that committed last, whatever the order of arrival.
C27_LastCommitWins ==
    (lastCommit.tool = "modify_cells" /\ lastCommit.ok /\ lastCommit.last)
        => \A e \in SeqRange(lastCommit.args.cells.entries) :
              cells[CellOf(e[1])]
                  = HostCoerce(LastWritten(lastCommit.args.cells.entries, e[1]))

\* Hello was requested for A1 first and 5 second, with the first handler still
\* suspended; both contexts were open at once, the second request committed
\* first, and A1 holds Hello.
C27_Witness ==
    /\ \E a, b \in ToolArrivals :
          /\ a.seq = 1 /\ a.tool_name = "modify_cells" /\ a.args.cells = WriteBoth
          /\ b.seq = 2 /\ b.tool_name = "modify_cells" /\ b.args.cells = WriteOther
          /\ b.busy = 1
    /\ \E t \in tasks :
          /\ t.seq = 1 /\ t.pc = "released"
          /\ t.prev.seq = 2 /\ t.prev.ok
          /\ t.outcome = Fulfilled(StrResult("Success"))
    /\ lastCommit.seq = 1
    /\ cells["A1"] = Str("Hello")
    /\ hostRuns = 2
    /\ hostSyncs = 2

\* The tool_result frames on the sockets that answer arrival a.
AnswersTo(a) == {i \in Results : sent[i].cause = a.seq}

\* C28: the executor performs no de-duplication: every admitted request is
\* executed, whether or not its request_id was seen before (it opens its own
\* context or is answered at once), and every tool_result answers one admitted
\* request, no two the same one.
C28_NoDeduplication ==
    /\ [](\A i, j \in Results : sent[i].cause = sent[j].cause => i = j)
    /\ [][\A a \in NewArrivals :
             (a.admitted /\ a.frame.payload) =>
                 IF Switch(a.tool_name, a.args).kind = "run"
                 THEN /\ hostRuns' = hostRuns + 1
                      /\ \E t \in tasks' \ tasks :
                            /\ t.seq = a.seq /\ t.request_id = a.request_id
                            /\ t.tool = a.tool_name /\ t.args = a.args
                 ELSE sent' = Append(sent,
                                     OnSocket(a.mount,
                                         ToolResult(a.request_id,
                                                    ResultOf(Switch(a.tool_name, a.args).outcome),
                                                    a.seq)))]_vars

\* The same write arrived twice under "r2": the host ran it twice and both
\* requests have their own tool_result with that request_id.
C28_Witness ==
    /\ \E a, b \in ToolArrivals :
          /\ a.seq = 1 /\ b.seq = 2
          /\ a.admitted /\ b.admitted
          /\ a.request_id = "r2" /\ b.request_id = "r2"
          /\ a.tool_name = "modify_cells" /\ a.args = CellsArgs(HelloMap)
          /\ b.tool_name = a.tool_name /\ b.args = a.args
    /\ hostRuns = 2
    /\ hostSyncs = 2
    /\ Len(sent) = 2
    /\ sent[1] = OnSocket(1, ToolResult("r2", StrResult("Success"), 1))
    /\ sent[2] = OnSocket(1, ToolResult("r2", StrResult("Success"), 2))

\* The invocation of arrival a is rejected before it is dispatched.
RejectedEarly(a) ==
    \/ a.tool_name \notin SwitchNames
    \/ a.tool_name = "modify_cells" /\ a.args.cells \in {NoCells, ObjCells(<< >>)}
    \/ a.tool_name \in {"read_cells_text", "read_cells_values"}
          /\ a.args.cells = ArrCells(<< >>)

\* C29: each tool invocation opens at most one automation context: Excel.run
\* is entered in the step that invokes an operation and in no later step of the
\* call, whatever the number of its syncs, and an invocation that is rejected
\* before dispatch (unknown tool, empty input) opens none.
C29_OneContextPerInvocation ==
    /\ [](hostRuns <= inputs)
    /\ [][/\ hostRuns' # hostRuns => (hostRuns' = hostRuns + 1 /\ inputs' = inputs + 1)
          /\ \A a \in NewArrivals :
                (a.event = "tool_request" /\ a.admitted /\ RejectedEarly(a))
                    => hostRuns' = hostRuns /\ tasks' = tasks
          /\ (returned'.seq # returned.seq /\ returned'.runs = 0)
                => hostRuns' = hostRuns /\ tasks' = tasks]_vars

\* delete_all_charts was called and has synced twice in the one context it
\* opened, and the request for an unknown tool was answered without opening one.
C29_Witness ==
    /\ returned.tool = "delete_all_charts" /\ returned.syncs = 2 /\ returned.runs = 1
    /\ returned.outcome.status = "fulfilled"
    /\ \E a \in ToolArrivals : a.admitted /\ a.tool_name = "write_cells"
    /\ \E i \in Results : sent[i].result = StrResult("Error: Unknown tool name")
    /\ hostRuns = 1
    /\ hostSyncs = 2

\* The chart of a create_chart call with the defaults for what a leaves out.
WithDefaults(id, a) ==
    [id |-> id,
     chartType |-> IF "chartType" \in a.given THEN a.chartType ELSE "Column",
     dataRange |-> a.dataRange,
     seriesBy |-> IF "hasHeaders" \in a.given /\ a.hasHeaders = "false"
                  THEN "Columns" ELSE "Auto",
     title |-> IF "title" \in a.given THEN a.title ELSE "Chart",
     position |-> IF "position" \in a.given THEN a.position ELSE "D2",
     width |-> IF "width" \in a.given THEN a.width ELSE 400,
     height |-> IF "height" \in a.given THEN a.height ELSE 300]

\* Task t ends with success in this step.
Succeeds(t) ==
    /\ t.pc = "syncing"
    /\ \E u \in tasks' :
          u.seq = t.seq /\ u.pc = "released" /\ u.outcome.status = "fulfilled"

\* Every successful create_chart adds exactly one chart, with the defaults.
CreateAddsOne ==
    \A t \in tasks :
        (t.tool = "create_chart" /\ Succeeds(t))
            => /\ charts' = charts \cup {WithDefaults(t.seq, t.args)}
               /\ Cardinality(charts') = Cardinality(charts) + 1

\* C30 (as claimed): each successful create_chart adds exactly one chart, with
\* the defaults for the options not supplied, and a delete_all_charts that
\* commits afterwards leaves the sheet with zero charts.
C30_CreateOneDeleteAll ==
    [][/\ CreateAddsOne
       /\ \A t \in tasks :
             (t.tool = "delete_all_charts" /\ Succeeds(t)) => charts' = {}]_vars

\* The displayed text of the cell in column c (1: A, 2: B) and row r.
TextAt(doc, c, r) == HostText(doc[Cols[c] \o ToString(r)]).val

\* One row of a block of the two-column sheet: its texts in column order,
\* joined by a single space.
RowString(doc, r, c1, c2) ==
    IF c1 = c2 THEN TextAt(doc, c1, r)
    ELSE TextAt(doc, 1, r) \o " " \o TextAt(doc, 2, r)

\* C31: read_subtable(col1, col2, row1, row2) returns one string per row of
\* the range col1 row1 : col2 row2, in row order, each string being the texts
\* of the row's cells in column order joined by a single space; it reads the
\* cells as they are at its sync and changes none.
C31_SubtableRowsJoined ==
    [][\A t \in tasks, u \in tasks' :
          (/\ t.seq = u.seq /\ t.tool = "read_subtable"
           /\ t.pc = "syncing" /\ u.pc = "released"
           /\ ValidBlock(t.args))
              => LET c1 == ColIndex(t.args.col1)
                     c2 == ColIndex(t.args.col2)
                     top == Min(t.args.row1, t.args.row2)
                     bottom == Max(t.args.row1, t.args.row2)
                     rows == u.outcome.result.arr
                 IN /\ u.outcome.status = "fulfilled"
                    /\ u.outcome.result.kind = "array"
                    /\ Len(rows) = bottom - top + 1
                    /\ \A i \in 1 .. Len(rows) :
                          rows[i] = RowString(cells, top + i - 1, c1, c2)
                    /\ cells' = cells
                    /\ t.syncs = 1]_vars

\* After Hello and 5 were written to row 1, the block A1:B2 was read: the
\* first row joins the two texts and the second, of empty cells, is one space.
C31_Witness ==
    /\ returned.tool = "read_subtable"
    /\ returned.args = BlockArgs("A", "B", 1, 2)
    /\ returned.prev.tool = "modify_cells" /\ returned.prev.ok
    /\ returned.outcome = Fulfilled(ArrResult(<<"Hello 5", " ">>))

\* The entry that the claim gives a chat_response or status frame.
ExpectedEntry(a) ==
    [sender |-> "bot",
     text |-> IF a.event = "chat_response" THEN a.frame.reply
              ELSE StatusPrefix \o a.frame.text,
     tools_used |-> IF a.event = "chat_response" /\ a.frame.tools_used.defined
                    THEN a.frame.tools_used.items ELSE << >>,
     cause |-> a.seq]

\* The arrival is a chat_response or a status with its payload.
Shown(a) == a.event \in {"chat_response", "status"} /\ a.frame.json /\ a.frame.payload

Blank(p) == p \in {"", " "}

\* C33: with a prompt that is empty or of white space only handleSend changes
\* nothing and emits nothing; with any other prompt on an open session it
\* appends exactly one user entry holding the prompt text, emits exactly one
\* chat frame with that text, clears the prompt and sets the loading flag.
C33_HandleSend ==
    [][HandleSend =>
          /\ Blank(prompt)
                => UNCHANGED <<messages, sent, loading, prompt, readyState, isConnected,
                               tasks, hostVars>>
          /\ (~Blank(prompt) /\ readyState = "OPEN")
                => /\ messages' = Append(messages, [sender |-> "user", text |-> prompt,
                                                    tools_used |-> << >>, cause |-> 0])
                   /\ sent' = Append(sent, OnSocket(mounts, Chat(prompt)))
                   /\ prompt' = ""
                   /\ loading']_vars

\* The prompt between spaces was sent as typed; a prompt of white space was
\* typed after it and sent too, which changed nothing.
C33_Witness ==
    /\ readyState = "OPEN"
    /\ mounts = 1 /\ root.element = 0
    /\ arrivals = {}
    /\ inputs = 2
    /\ messages = <<Greeting, Entry("user", " hi ")>>
    /\ sent = <<OnSocket(1, Chat(" hi "))>>
    /\ loading
    /\ prompt = " "

\* The frame cannot be decoded, or lacks the payload its branch reads.
Malformed(f) == ~f.json \/ LacksPayload(f)

\* C34: No inbound frame terminates message handling. After a frame that is
\* not JSON, or a chat_response, status or tool_request frame without payload,
\* the connectivity state and the conversation log are as they were; the App
\* stays mounted and its socket stays open until the transport closes it, so
\* that onmessage takes the frames that follow.
C34_MalformedFrameIsHarmless ==
    /\ [][\A a \in NewArrivals :
             (mounts' = mounts /\ Malformed(a.frame)) =>
                 /\ isConnected' = isConnected
                 /\ readyState' = readyState
                 /\ messages' = messages]_vars
    /\ []((\E a \in arrivals : Malformed(a.frame)) => ~Unmounted)
    /\ [][(mounts' = mounts /\ readyState = "OPEN" /\ readyState' # "OPEN") =>
             (readyState' = "CLOSED" /\ messages' = Append(messages, ConnectionLost))]_vars

\* The frame the catch block sends for task t, and the one the try block sends.
CatchFrame(t) ==
    OnSocket(t.mount,
             ToolResult(t.request_id, StrResult("Error: " \o t.outcome.message), t.seq))
TryFrame(t) == OnSocket(t.mount, ToolResult(t.request_id, t.outcome.result, t.seq))

\* C35: each admitted tool_request produces at most one tool_result frame. The
\* try block's send and the catch block's are mutually exclusive: a request
\* has no answer while its operation is pending, one step puts at most one
\* frame on the sockets, and the frame of a handler that completes with its
\* socket open is the catch block's exactly when the operation failed. A
\* request that was not admitted has none.
C35_AtMostOneResult ==
    /\ [](\A a \in ToolArrivals :
            /\ Cardinality(AnswersTo(a)) <= (IF a.admitted THEN 1 ELSE 0)
            /\ \A t \in tasks : t.seq = a.seq => AnswersTo(a) = {})
    /\ [][sent' # sent =>
             /\ Len(sent') = Len(sent) + 1
             /\ \A i \in DOMAIN sent : sent'[i] = sent[i]]_vars
    /\ [][\A t \in tasks :
             (Completes(t) /\ SocketIsOpen(t.mount)) =>
                 /\ Len(sent') = Len(sent) + 1
                 /\ sent'[Len(sent')] = IF t.outcome.status = "rejected"
                                        THEN CatchFrame(t) ELSE TryFrame(t)]_vars

\* Two requests were answered, each once: a known tool that failed at the host
\* (the catch block's send) and an unknown tool (the try block's send).
C35_Witness ==
    /\ tasks = {}
    /\ Len(sent) = 2
    /\ \E a, b \in ToolArrivals :
          /\ a.admitted /\ b.admitted /\ a.seq # b.seq
          /\ a.tool_name = "modify_cells" /\ b.tool_name \notin SwitchNames
          /\ \E i \in AnswersTo(a) : sent[i].result = StrResult("Error: " \o InvalidArgument)
          /\ \E j \in AnswersTo(b) : sent[j].result = StrResult("Error: Unknown tool name")

\* The answer a request gets when the imported object lacks the operation.
MissingFunction(name) == StrResult("Error: ExcelTools." \o name \o " is not a function")

\* C36: every tool name that the switch accepts resolves to an implementation
\* in the ExcelTools registry that the executor imports: no request for an
\* accepted name is answered with a missing-function error.
C36_AcceptedNamesResolve ==
    \A a \in ToolArrivals :
        (a.admitted /\ a.tool_name \in SwitchNames) =>
            \A i \in AnswersTo(a) : sent[i].result # MissingFunction(a.tool_name)

\* The admitted requests that name an operation the switch does not list.
UnlistedArrivals == {a \in ToolArrivals : a.admitted /\ a.tool_name \in UnlistedTools}

\* The answer to a request for a tool that the switch does not list.
UnknownTool(a) ==
    OnSocket(a.mount, ToolResult(a.request_id, StrResult("Error: Unknown tool name"), a.seq))

\* C37: a tool_request naming an operation that ExcelTools defines but the
\* switch does not list is treated as an unknown tool: its tool_result carries
\* "Error: Unknown tool name", sent in the step that receives it, and the host
\* document is not touched: no operation runs for it and the workbook, its
\* charts and the host's counters stay as they are.
C37_UnlistedIsUnknown ==
    /\ [](\A a \in UnlistedArrivals :
            /\ \A t \in tasks : t.seq # a.seq
            /\ lastCommit.seq # a.seq
            /\ AnswersTo(a) # {}
            /\ \A i \in AnswersTo(a) : sent[i] = UnknownTool(a))
    /\ [][\A a \in UnlistedArrivals' \ UnlistedArrivals :
             /\ sent' = Append(sent, UnknownTool(a))
             /\ UNCHANGED hostVars]_vars

\* read_range and clear_range were requested and admitted: each has its
\* "Error: Unknown tool name" answer and the host has run nothing.
C37_Witness ==
    /\ \E a, b \in UnlistedArrivals :
          /\ a.tool_name = "read_range" /\ b.tool_name = "clear_range"
          /\ AnswersTo(a) # {} /\ AnswersTo(b) # {}
    /\ Len(sent) = 2
    /\ hostRuns = 0 /\ hostSyncs = 0

\* The arrival is a tool_request that the readiness gate dropped.
DroppedRequest(a) == a.event = "tool_request" /\ ~a.admitted

\* C38: the loading flag is set to true by handleSend and by nothing else; it
\* is cleared by every inbound frame that passes the readiness gate, whatever
\* its tag, and by the closure of the session of the App that holds the flag;
\* a tool_request dropped because the readiness flag is false leaves it as it
\* was, and so does the closure of the socket of an App that the root holds no
\* more.
C38_LoadingFlag ==
    /\ [][(Len(messages') = Len(messages) + 1
              /\ messages'[Len(messages')].sender = "user") => loading']_vars
    /\ [][(loading' /\ ~loading) =>
             /\ Len(messages') = Len(messages) + 1
             /\ messages'[Len(messages')] = Entry("user", prompt)]_vars
    /\ [][\A a \in NewArrivals :
             IF DroppedRequest(a) THEN loading' = loading ELSE ~loading']_vars
    /\ [][\A m \in Lasting :
             Closes(m) => IF IsMounted(m) THEN ~loading' ELSE loading' = loading]_vars

\* The user sent a prompt; the tool_request that arrived next was dropped and
\* the flag is still set.
C38_Witness ==
    /\ loading
    /\ \E i \in DOMAIN messages : messages[i].sender = "user"
    /\ \E a \in ToolArrivals : DroppedRequest(a) /\ a.seq = inputs /\ a.ready

\* The effect of a mounted App runs in this step.
MountEffect == root.effects /\ ~root'.effects /\ ~Unmounted /\ readyState = "NONE"

\* C39: the readiness flag is monotonic. The App is first rendered with
\* isOfficeInitialized = false; the flag is true once the host has signalled
\* readiness, and once true it never returns to false. The connection is
\* opened at mount whatever the flag's value: the effect of every mounted App
\* opens a socket, and a change of the flag leaves the sockets as they are.
C39_ReadinessMonotonic ==
    /\ ~isOfficeInitialized
    /\ [][isOfficeInitialized => isOfficeInitialized']_vars
    /\ [](onReady => isOfficeInitialized)
    /\ [][(~isOfficeInitialized /\ isOfficeInitialized') =>
             UNCHANGED <<readyState, isConnected, handlerReady, prior, sockets, mounts>>]_vars
    /\ [][MountEffect => (readyState' = "CONNECTING" /\ sockets' = sockets + 1)]_vars
    /\ []((mounts >= 1 /\ ~Unmounted /\ ~root.effects) => readyState # "NONE")

\* The App was mounted and its connection opened while the flag was false.
C39_Witness ==
    /\ mounts = 1
    /\ readyState = "OPEN"
    /\ ~isOfficeInitialized
    /\ ~drawn.ready

====
